---- MODULE Spec2Model ----
(***************************************************************************)
(* Model of joeEndacott/numerical_methods: uniform grids, grid functions,  *)
(* finite-difference operators and the Newton iteration for two-point      *)
(* boundary value problems.                                                *)
(*                                                                         *)
(* f64 values are modelled in exact arithmetic as normalised fractions     *)
(* <<n, d>> with d > 0; d = 0 encodes the IEEE specials (<<1, 0>> is       *)
(* +infinity, <<-1, 0>> is -infinity, <<0, 0>> is NaN).  Rounding and      *)
(* signed zeros are not modelled.  Vectors are 1-based sequences, so the   *)
(* source's index i is position i + 1 here.                                *)
(***************************************************************************)
EXTENDS Integers, Sequences, FiniteSets, TLC

(* ---------------------------------------------------------------------- *)
(* Bounds of the model                                                     *)
(* ---------------------------------------------------------------------- *)
MaxPoints == 4

MaxIterations == 2

\* The longest value sequence of an operand of the elementwise arithmetic.
MaxValues == 2

(* ---------------------------------------------------------------------- *)
(* Evaluation                                                              *)
(* ---------------------------------------------------------------------- *)
\* The element of a singleton set.  TLC passes the arguments of an operator
\* by name; an operator that uses an argument more than once binds it by
\* value first, as in Val({e(a) : a \in {x}}), the value of e at a = x.
Val(S) == CHOOSE r \in S : TRUE

(* ---------------------------------------------------------------------- *)
(* f64 arithmetic                                                          *)
(* ---------------------------------------------------------------------- *)
Abs(x) == Val({IF n < 0 THEN -n ELSE n : n \in {x}})

Sign(x) == Val({IF n < 0 THEN -1 ELSE IF n > 0 THEN 1 ELSE 0 : n \in {x}})

RECURSIVE GCD(_, _)
GCD(a, b) == Val({IF n = 0 THEN m ELSE GCD(n, m % n) : m \in {a}, n \in {b}})

Norm(n, d) ==
    Val({IF q = 0 THEN <<Sign(p), 0>>
         ELSE Val({<<(Sign(q) * p) \div g, (Sign(q) * q) \div g>> :
                      g \in {GCD(Abs(p), Abs(q))}}) :
            p \in {n}, q \in {d}})

R(n) == <<n, 1>>

Frac(n, d) == Norm(n, d)

IsFinite(a) == a[2] # 0

IsNaN(a) == Val({x[1] = 0 /\ x[2] = 0 : x \in {a}})

RNeg(a) == Val({<<-x[1], x[2]>> : x \in {a}})

RAdd(a, b) ==
    Val({IF IsFinite(x) /\ IsFinite(y)
         THEN Val({Norm(x[1] * (l \div x[2]) + y[1] * (l \div y[2]), l) :
                      l \in {(x[2] \div GCD(x[2], y[2])) * y[2]}})
         ELSE IF IsNaN(x) \/ IsNaN(y) THEN <<0, 0>>
         ELSE IF IsFinite(y) THEN x
         ELSE IF IsFinite(x) THEN y
         ELSE IF x = y THEN x ELSE <<0, 0>> :
            x \in {a}, y \in {b}})

RSub(a, b) == RAdd(a, RNeg(b))

RMul(a, b) ==
    Val({IF IsFinite(x) /\ IsFinite(y)
         THEN Val({Norm((x[1] \div g1) * (y[1] \div g2),
                        (x[2] \div g2) * (y[2] \div g1)) :
                      g1 \in {GCD(Abs(x[1]), y[2])},
                      g2 \in {GCD(Abs(y[1]), x[2])}})
         ELSE <<Sign(x[1]) * Sign(y[1]), 0>> :
            x \in {a}, y \in {b}})

RDiv(a, b) ==
    Val({IF IsFinite(y) /\ y[1] # 0
         THEN RMul(x, <<Sign(y[1]) * y[2], Abs(y[1])>>)
         ELSE IF IsFinite(y) THEN <<Sign(x[1]), 0>>
         ELSE IF IsFinite(x) /\ ~IsNaN(y) THEN <<0, 1>>
         ELSE <<0, 0>> :
            x \in {a}, y \in {b}})

RGeq(a, b) ==
    \E x \in {a}, y \in {b} :
        /\ ~IsNaN(x)
        /\ ~IsNaN(y)
        /\ IF IsFinite(x) /\ IsFinite(y) THEN x[1] * y[2] >= y[1] * x[2]
           ELSE IF IsFinite(y) THEN x[1] > 0
           ELSE IF IsFinite(x) THEN y[1] < 0
           ELSE x[1] >= y[1]

RLess(a, b) ==
    \E x \in {a}, y \in {b} : ~IsNaN(x) /\ ~IsNaN(y) /\ ~RGeq(x, y)

(* ---------------------------------------------------------------------- *)
(* Grid                                                                    *)
(* ---------------------------------------------------------------------- *)
Grid(points) == [grid_points |-> points]

\* Vec<f64> built by pushing f[i], f[i + 1], ..., f[n] in that order.
RECURSIVE Collect(_, _, _)
Collect(f, i, n) ==
    Val({IF k > m THEN << >> ELSE <<f[k]>> \o Collect(f, k + 1, m) :
            k \in {i}, m \in {n}})

\* new_uniform_grid with the single-point case tested before the degenerate
\* interval.
new_uniform_grid_single_first(start_point, end_point, num_points) ==
    Val({IF N = 1
         THEN Grid(<<a>>)
         ELSE IF RGeq(a, b) \/ N = 0
         THEN Grid(<< >>)
         ELSE Val({Grid(Collect([i \in 1..N |->
                                    RAdd(a, RMul(R(i - 1), step_size))],
                                1, N)) :
                      step_size \in {RDiv(RSub(b, a), RSub(R(N), R(1)))}}) :
            a \in {start_point}, b \in {end_point}, N \in {num_points}})

\* new_uniform_grid with the spacing taken over num_points cells.
new_uniform_grid_wrong_spacing(start_point, end_point, num_points) ==
    Val({IF RGeq(a, b) \/ N = 0
         THEN Grid(<< >>)
         ELSE IF N = 1
         THEN Grid(<<a>>)
         ELSE Val({Grid(Collect([i \in 1..N |->
                                    RAdd(a, RMul(R(i - 1), step_size))],
                                1, N)) :
                      step_size \in {RDiv(RSub(b, a), R(N))}}) :
            a \in {start_point}, b \in {end_point}, N \in {num_points}})

\* a, b and N stand for start_point, end_point and num_points.
new_uniform_grid(start_point, end_point, num_points) ==
    Val({IF RGeq(a, b) \/ N = 0
         THEN Grid(<< >>)
         ELSE IF N = 1
         THEN Grid(<<a>>)
         ELSE Val({Grid(Collect([i \in 1..N |->
                                    RAdd(a, RMul(R(i - 1), step_size))],
                                1, N)) :
                      step_size \in {RDiv(RSub(b, a), RSub(R(N), R(1)))}}) :
            a \in {start_point}, b \in {end_point}, N \in {num_points}})

(* ---------------------------------------------------------------------- *)
(* GridFunction                                                            *)
(* ---------------------------------------------------------------------- *)
GridFunction(grid, function_values) ==
    [grid |-> grid, function_values |-> function_values]

\* The scalar functions sampled by new_grid_function.
ScalarFuncs == {"zero", "line", "parabola"}

ScalarFunc(func, x) ==
    CASE func = "zero" -> R(0)
      [] func = "line" -> x
      [] func = "parabola" -> RMul(x, RSub(R(2), x))
      [] func = "square" -> RMul(x, x)

new_grid_function(grid, func) ==
    Val({GridFunction(g,
             Collect([i \in 1..Len(g.grid_points) |->
                         ScalarFunc(func, g.grid_points[i])],
                     1, Len(g.grid_points))) :
            g \in {grid}})

\* new_constant_grid_function building vec![scalar] for every grid.
new_constant_grid_function_one_value(grid, scalar) ==
    Val({GridFunction(g, <<c>>) : g \in {grid}, c \in {scalar}})

new_constant_grid_function(grid, scalar) ==
    Val({GridFunction(g,
             Collect([i \in 1..Len(g.grid_points) |-> c],
                     1, Len(g.grid_points))) :
            g \in {grid}, c \in {scalar}})

\* ZeroPadded without the padding.
ZeroPadded_not_padded(function_values_1, function_values_2) == function_values_2

\* function_values_2 after the zero padding of add, subtract, multiply and
\* divide.
ZeroPadded(function_values_1, function_values_2) ==
    LET length_difference == Len(function_values_1) - Len(function_values_2)
    IN  IF length_difference > 0
        THEN function_values_2
                 \o Collect([i \in 1..length_difference |-> R(0)],
                            1, length_difference)
        ELSE function_values_2

Min(a, b) == IF a < b THEN a ELSE b

\* add whose closure subtracts.
add_subtracting(self, grid_func) ==
    Val({Val({GridFunction(f.grid,
                  Collect([i \in 1..Min(Len(function_values_1),
                                        Len(function_values_2)) |->
                              RSub(function_values_1[i], function_values_2[i])],
                          1, Min(Len(function_values_1),
                                 Len(function_values_2)))) :
                 function_values_1 \in {f.function_values},
                 function_values_2 \in
                     {ZeroPadded(f.function_values, g.function_values)}}) :
            f \in {self}, g \in {grid_func}})

add(self, grid_func) ==
    Val({Val({GridFunction(f.grid,
                  Collect([i \in 1..Min(Len(function_values_1),
                                        Len(function_values_2)) |->
                              RAdd(function_values_1[i], function_values_2[i])],
                          1, Min(Len(function_values_1),
                                 Len(function_values_2)))) :
                 function_values_1 \in {f.function_values},
                 function_values_2 \in
                     {ZeroPadded(f.function_values, g.function_values)}}) :
            f \in {self}, g \in {grid_func}})

\* subtract that pads the shorter of the two operands, so that the longer one
\* decides the length of the result.
subtract_longest(self, grid_func) ==
    Val({GridFunction(f.grid,
             Collect([i \in 1..Len(function_values_1) |->
                         RSub(function_values_1[i], function_values_2[i])],
                     1, Len(function_values_1))) :
            f \in {self},
            function_values_1 \in
                {ZeroPadded(grid_func.function_values, self.function_values)},
            function_values_2 \in
                {ZeroPadded(self.function_values, grid_func.function_values)}})

subtract(self, grid_func) ==
    Val({Val({GridFunction(f.grid,
                  Collect([i \in 1..Min(Len(function_values_1),
                                        Len(function_values_2)) |->
                              RSub(function_values_1[i], function_values_2[i])],
                          1, Min(Len(function_values_1),
                                 Len(function_values_2)))) :
                 function_values_1 \in {f.function_values},
                 function_values_2 \in
                     {ZeroPadded(f.function_values, g.function_values)}}) :
            f \in {self}, g \in {grid_func}})

\* multiply that carries the grid of the right operand.
multiply_right_grid(self, grid_func) ==
    GridFunction(grid_func.grid,
        Val({Collect([i \in 1..Min(Len(function_values_1),
                                   Len(function_values_2)) |->
                         RMul(function_values_1[i], function_values_2[i])],
                     1, Min(Len(function_values_1), Len(function_values_2))) :
                function_values_1 \in {self.function_values},
                function_values_2 \in
                    {ZeroPadded(self.function_values,
                                grid_func.function_values)}}))

multiply(self, grid_func) ==
    Val({Val({GridFunction(f.grid,
                  Collect([i \in 1..Min(Len(function_values_1),
                                        Len(function_values_2)) |->
                              RMul(function_values_1[i], function_values_2[i])],
                          1, Min(Len(function_values_1),
                                 Len(function_values_2)))) :
                 function_values_1 \in {f.function_values},
                 function_values_2 \in
                     {ZeroPadded(f.function_values, g.function_values)}}) :
            f \in {self}, g \in {grid_func}})

\* divide that yields 0 where the divisor is 0.
divide_guarded(self, grid_func) ==
    Val({Val({GridFunction(f.grid,
                  Collect([i \in 1..Min(Len(function_values_1),
                                        Len(function_values_2)) |->
                              IF function_values_2[i] = R(0)
                              THEN R(0)
                              ELSE RDiv(function_values_1[i],
                                        function_values_2[i])],
                          1, Min(Len(function_values_1),
                                 Len(function_values_2)))) :
                 function_values_1 \in {f.function_values},
                 function_values_2 \in
                     {ZeroPadded(f.function_values, g.function_values)}}) :
            f \in {self}, g \in {grid_func}})

divide(self, grid_func) ==
    Val({Val({GridFunction(f.grid,
                  Collect([i \in 1..Min(Len(function_values_1),
                                        Len(function_values_2)) |->
                              RDiv(function_values_1[i], function_values_2[i])],
                          1, Min(Len(function_values_1),
                                 Len(function_values_2)))) :
                 function_values_1 \in {f.function_values},
                 function_values_2 \in
                     {ZeroPadded(f.function_values, g.function_values)}}) :
            f \in {self}, g \in {grid_func}})

scale(self, scalar) ==
    Val({GridFunction(f.grid,
             Collect([i \in 1..Len(f.function_values) |->
                         RMul(c, f.function_values[i])],
                     1, Len(f.function_values))) :
            f \in {self}, c \in {scalar}})

\* The four binary operations, by name.
ArithmeticOps == {"add", "subtract", "multiply", "divide"}

Arithmetic(op, self, grid_func) ==
    CASE op = "add" -> add(self, grid_func)
      [] op = "subtract" -> subtract(self, grid_func)
      [] op = "multiply" -> multiply(self, grid_func)
      [] op = "divide" -> divide(self, grid_func)

(* ---------------------------------------------------------------------- *)
(* Numerical differentiation                                               *)
(* ---------------------------------------------------------------------- *)
\* The index arithmetic of both derivative operators is out of bounds below
\* two grid points, or when there are fewer values than grid points.
derivative_panics(self) ==
    \E f \in {self} :
        \/ Len(f.grid.grid_points) < 2
        \/ Len(f.function_values) < Len(f.grid.grid_points)

\* forward_difference_derivative with the backward difference at the interior
\* points.
forward_difference_derivative_backward(self) ==
    Val({LET function_values == f.function_values
             grid_points == f.grid.grid_points
             num_points == Len(grid_points)
             first == RDiv(RSub(function_values[2], function_values[1]),
                           RSub(grid_points[2], grid_points[1]))
             interior == [i \in 2..(num_points - 1) |->
                             RDiv(RSub(function_values[i],
                                       function_values[i - 1]),
                                  RSub(grid_points[i],
                                       grid_points[i - 1]))]
             last == RDiv(RSub(function_values[num_points],
                               function_values[num_points - 1]),
                          RSub(grid_points[num_points],
                               grid_points[num_points - 1]))
         IN  GridFunction(f.grid,
                 <<first>> \o Collect(interior, 2, num_points - 1)
                     \o <<last>>) :
            f \in {self}})

forward_difference_derivative(self) ==
    Val({LET function_values == f.function_values
             grid_points == f.grid.grid_points
             num_points == Len(grid_points)
             first == RDiv(RSub(function_values[2], function_values[1]),
                           RSub(grid_points[2], grid_points[1]))
             interior == [i \in 2..(num_points - 1) |->
                             RDiv(RSub(function_values[i + 1],
                                       function_values[i]),
                                  RSub(grid_points[i + 1],
                                       grid_points[i]))]
             last == RDiv(RSub(function_values[num_points],
                               function_values[num_points - 1]),
                          RSub(grid_points[num_points],
                               grid_points[num_points - 1]))
         IN  GridFunction(f.grid,
                 <<first>> \o Collect(interior, 2, num_points - 1)
                     \o <<last>>) :
            f \in {self}})

\* central_difference_derivative that divides the two-cell difference by the
\* width of one cell.
central_difference_derivative_one_cell(self) ==
    Val({LET function_values == f.function_values
             grid_points == f.grid.grid_points
             num_points == Len(grid_points)
             first == RDiv(RSub(function_values[2], function_values[1]),
                           RSub(grid_points[2], grid_points[1]))
             interior == [i \in 2..(num_points - 1) |->
                             RDiv(RSub(function_values[i + 1],
                                       function_values[i - 1]),
                                  RSub(grid_points[i + 1],
                                       grid_points[i]))]
             last == RDiv(RSub(function_values[num_points],
                               function_values[num_points - 1]),
                          RSub(grid_points[num_points],
                               grid_points[num_points - 1]))
         IN  GridFunction(f.grid,
                 <<first>> \o Collect(interior, 2, num_points - 1)
                     \o <<last>>) :
            f \in {self}})

central_difference_derivative(self) ==
    Val({LET function_values == f.function_values
             grid_points == f.grid.grid_points
             num_points == Len(grid_points)
             first == RDiv(RSub(function_values[2], function_values[1]),
                           RSub(grid_points[2], grid_points[1]))
             interior == [i \in 2..(num_points - 1) |->
                             RDiv(RSub(function_values[i + 1],
                                       function_values[i - 1]),
                                  RSub(grid_points[i + 1],
                                       grid_points[i - 1]))]
             last == RDiv(RSub(function_values[num_points],
                               function_values[num_points - 1]),
                          RSub(grid_points[num_points],
                               grid_points[num_points - 1]))
         IN  GridFunction(f.grid,
                 <<first>> \o Collect(interior, 2, num_points - 1)
                     \o <<last>>) :
            f \in {self}})

Derivative(op, self) ==
    IF op = "forward_difference_derivative"
    THEN forward_difference_derivative(self)
    ELSE central_difference_derivative(self)

\* DerivativeOutcome with a guard that returns no values below two points.
DerivativeOutcome_guarded(op, self) ==
    IF Len(self.grid.grid_points) < 2
    THEN [outcome |-> "returned", ret |-> GridFunction(self.grid, << >>)]
    ELSE IF derivative_panics(self)
    THEN [outcome |-> "panicked", ret |-> [panic |-> "index_out_of_bounds"]]
    ELSE [outcome |-> "returned", ret |-> Derivative(op, self)]

\* How a call of a derivative operator ends.  The first statement indexes
\* function_values[1] and grid_points[1], before any subtraction of usize,
\* so every panic is an index out of bounds.
DerivativeOutcome(op, self) ==
    IF derivative_panics(self)
    THEN [outcome |-> "panicked", ret |-> [panic |-> "index_out_of_bounds"]]
    ELSE [outcome |-> "returned", ret |-> Derivative(op, self)]

(* ---------------------------------------------------------------------- *)
(* Quadratic interpolation                                                 *)
(* ---------------------------------------------------------------------- *)
\* quadratic_interpolation_coefficients with x0 + x2 in place of x0 + x1 in
\* the last term of b.
quadratic_interpolation_coefficients_wrong_b(points, function_values) ==
    Val({Val({LET a == RAdd(RAdd(d0, d1), d2)
                  b == RSub(RSub(RNeg(RMul(d0, RAdd(x1, x2))),
                                 RMul(d1, RAdd(x0, x2))),
                            RMul(d2, RAdd(x0, x2)))
                  c == RAdd(RAdd(RMul(RMul(d0, x1), x2),
                                 RMul(RMul(d1, x0), x2)),
                            RMul(RMul(d2, x0), x1))
              IN  <<a, b, c>> :
                 d0 \in {RDiv(function_values[1],
                              RMul(RSub(x0, x1), RSub(x0, x2)))},
                 d1 \in {RDiv(function_values[2],
                              RMul(RSub(x1, x0), RSub(x1, x2)))},
                 d2 \in {RDiv(function_values[3],
                              RMul(RSub(x2, x0), RSub(x2, x1)))}}) :
            x0 \in {points[1]}, x1 \in {points[2]}, x2 \in {points[3]}})

\* points and function_values are triples; the result is <<a, b, c>> of
\* a * x^2 + b * x + c.
quadratic_interpolation_coefficients(points, function_values) ==
    Val({Val({LET a == RAdd(RAdd(d0, d1), d2)
                  b == RSub(RSub(RNeg(RMul(d0, RAdd(x1, x2))),
                                 RMul(d1, RAdd(x0, x2))),
                            RMul(d2, RAdd(x0, x1)))
                  c == RAdd(RAdd(RMul(RMul(d0, x1), x2),
                                 RMul(RMul(d1, x0), x2)),
                            RMul(RMul(d2, x0), x1))
              IN  <<a, b, c>> :
                 d0 \in {RDiv(function_values[1],
                              RMul(RSub(x0, x1), RSub(x0, x2)))},
                 d1 \in {RDiv(function_values[2],
                              RMul(RSub(x1, x0), RSub(x1, x2)))},
                 d2 \in {RDiv(function_values[3],
                              RMul(RSub(x2, x0), RSub(x2, x1)))}}) :
            x0 \in {points[1]}, x1 \in {points[2]}, x2 \in {points[3]}})

\* QuadraticAntiderivative with b * x^2 in place of (b / 2) * x^2.
QuadraticAntiderivative_unhalved(coefficients, limit) ==
    Val({RAdd(RAdd(RMul(RDiv(k[1], R(3)), RMul(RMul(x, x), x)),
                   RMul(k[2], RMul(x, x))),
              RMul(k[3], x)) :
            k \in {coefficients}, x \in {limit}})

\* The antiderivative (a / 3) * x^3 + (b / 2) * x^2 + c * x at limit.
QuadraticAntiderivative(coefficients, limit) ==
    Val({RAdd(RAdd(RMul(RDiv(k[1], R(3)), RMul(RMul(x, x), x)),
                   RMul(RDiv(k[2], R(2)), RMul(x, x))),
              RMul(k[3], x)) :
            k \in {coefficients}, x \in {limit}})

quadratic_integral(coefficients, lower_limit, upper_limit) ==
    LET integral_upper == QuadraticAntiderivative(coefficients, upper_limit)
        integral_lower == QuadraticAntiderivative(coefficients, lower_limit)
    IN  RSub(integral_upper, integral_lower)

(* ---------------------------------------------------------------------- *)
(* Numerical integration                                                   *)
(* ---------------------------------------------------------------------- *)
\* usize subtraction below zero panics in a build with overflow checks (the
\* debug profile) and wraps around in one without (the release profile).
Builds == {"debug", "release"}

\* How integrate_riemann_sum panics, "none" if it returns.  On an empty grid
\* num_points - 1 is below zero: with overflow checks that panics, without
\* them the loop runs from n = 0 and its first index is out of bounds.
integrate_riemann_sum_panic(self, build) ==
    Val({IF num_points = 0
         THEN (IF build = "debug" THEN "subtract_overflow"
               ELSE "index_out_of_bounds")
         ELSE IF Len(self.function_values) < num_points - 1
         THEN "index_out_of_bounds"
         ELSE "none" :
            num_points \in {Len(self.grid.grid_points)}})

\* The loop of integrate_riemann_sum from n (0-based) on.
RECURSIVE RiemannLoop(_, _, _)
RiemannLoop(self, n, integral) ==
    Val({IF k >= Len(f.grid.grid_points) - 1
         THEN acc
         ELSE RiemannLoop(f, k + 1,
                  RAdd(acc, RMul(f.function_values[k + 1],
                                 RSub(f.grid.grid_points[k + 2],
                                      f.grid.grid_points[k + 1])))) :
            f \in {self}, k \in {n}, acc \in {integral}})

integrate_riemann_sum(self) == RiemannLoop(self, 0, R(0))

\* integrate_composite_simpsons_rule_panic without the test of the parity.
integrate_composite_simpsons_rule_panic_unchecked(self, build) ==
    Val({IF num_points < 2
         THEN (IF build = "debug" THEN "subtract_overflow"
               ELSE "index_out_of_bounds")
         ELSE IF num_points >= 3 /\ Len(self.function_values) < num_points
         THEN "index_out_of_bounds"
         ELSE "none" :
            num_points \in {Len(self.grid.grid_points)}})

\* How integrate_composite_simpsons_rule panics, "none" if it returns.  With
\* one point num_points - 2 is below zero: with overflow checks that panics,
\* without them the loop runs from n = 0 and grid_points[1] is out of bounds.
integrate_composite_simpsons_rule_panic(self, build) ==
    Val({IF num_points % 2 = 0
         THEN "odd_points_required"
         ELSE IF num_points = 1
         THEN (IF build = "debug" THEN "subtract_overflow"
               ELSE "index_out_of_bounds")
         ELSE IF Len(self.function_values) < num_points
         THEN "index_out_of_bounds"
         ELSE "none" :
            num_points \in {Len(self.grid.grid_points)}})

\* SimpsonLoop with a stride of one: consecutive triples overlap.
RECURSIVE SimpsonLoop_overlapping(_, _, _)
SimpsonLoop_overlapping(self, n, integral) ==
    Val({IF k >= Len(f.grid.grid_points) - 2
         THEN acc
         ELSE SimpsonLoop_overlapping(f, k + 1,
                  RAdd(acc, quadratic_integral(
                      quadratic_interpolation_coefficients(
                          <<f.grid.grid_points[k + 1],
                            f.grid.grid_points[k + 2],
                            f.grid.grid_points[k + 3]>>,
                          <<f.function_values[k + 1],
                            f.function_values[k + 2],
                            f.function_values[k + 3]>>),
                      f.grid.grid_points[k + 1],
                      f.grid.grid_points[k + 3]))) :
            f \in {self}, k \in {n}, acc \in {integral}})

\* The loop of integrate_composite_simpsons_rule from n (0-based) on.
RECURSIVE SimpsonLoop(_, _, _)
SimpsonLoop(self, n, integral) ==
    Val({IF k >= Len(f.grid.grid_points) - 2
         THEN acc
         ELSE LET points == <<f.grid.grid_points[k + 1],
                              f.grid.grid_points[k + 2],
                              f.grid.grid_points[k + 3]>>
                  function_values == <<f.function_values[k + 1],
                                       f.function_values[k + 2],
                                       f.function_values[k + 3]>>
                  quadratic_coefficients ==
                      quadratic_interpolation_coefficients(points,
                                                           function_values)
              IN  SimpsonLoop(f, k + 2,
                      RAdd(acc, quadratic_integral(quadratic_coefficients,
                                                   points[1], points[3]))) :
            f \in {self}, k \in {n}, acc \in {integral}})

integrate_composite_simpsons_rule(self) == SimpsonLoop(self, 0, R(0))

IntegrationOps == {"integrate_riemann_sum", "integrate_composite_simpsons_rule"}

\* The panic of the integration operator op on self, "none" if it returns.
IntegrationPanic(op, self, build) ==
    IF op = "integrate_riemann_sum"
    THEN integrate_riemann_sum_panic(self, build)
    ELSE integrate_composite_simpsons_rule_panic(self, build)

Integration(op, self) ==
    IF op = "integrate_riemann_sum"
    THEN integrate_riemann_sum(self)
    ELSE integrate_composite_simpsons_rule(self)

(* ---------------------------------------------------------------------- *)
(* Differential-equation operators F: GridFunction -> GridFunction         *)
(* ---------------------------------------------------------------------- *)
\* "harmonic" is differential_equation_function of main.rs (y'' + y); the
\* others are further callers' operators composed from the library:
\* "scale" is F(f) = 2 f, "constant" is F(f) = 1 whatever f is, and "square"
\* is the nonlinear F(f) = f * f.
LinearDeFuncs == {"harmonic", "scale", "constant"}

DeFuncs == LinearDeFuncs \cup {"square"}

\* differential_equation_function with a third difference, y(3) + y.
differential_equation_function_third_order(grid_func) ==
    add(central_difference_derivative(central_difference_derivative(
            central_difference_derivative(grid_func))),
        grid_func)

differential_equation_function(grid_func) ==
    add(central_difference_derivative(central_difference_derivative(grid_func)),
        grid_func)

de_func_panics(de_func, grid_func) ==
    de_func = "harmonic" /\ derivative_panics(grid_func)

DeFunc(de_func, grid_func) ==
    CASE de_func = "harmonic" -> differential_equation_function(grid_func)
      [] de_func = "scale" -> scale(grid_func, R(2))
      [] de_func = "constant" ->
             new_constant_grid_function(grid_func.grid, R(1))
      [] de_func = "square" -> multiply(grid_func, grid_func)

(* ---------------------------------------------------------------------- *)
(* Boundary value problems                                                 *)
(* ---------------------------------------------------------------------- *)
BoundaryConditions(left_bc, right_bc) ==
    [left_bc |-> left_bc, right_bc |-> right_bc]

\* Perturbed on a copy that keeps the perturbations of the columns before j.
Perturbed_accumulating(grid_func, j, step_size) ==
    [grid_func EXCEPT
        !.function_values =
            [c \in 1..Len(@) |-> IF c <= j + 1 THEN RAdd(@[c], step_size)
                                 ELSE @[c]]]

\* The copy of grid_func whose component j (0-based) is raised by step_size.
Perturbed(grid_func, j, step_size) ==
    [grid_func EXCEPT !.function_values[j + 1] = RAdd(@, step_size)]

\* JacobianEntry with the last row tested for one index too far.
JacobianEntry_last_row_off_by_one(de_func, grid_func, step_size, i, j) ==
    LET matrix_size == Len(grid_func.function_values)
    IN  IF i = 0
        THEN (IF j = 0 THEN R(1) ELSE R(0))
        ELSE IF i = matrix_size
        THEN (IF j = matrix_size - 1 THEN R(1) ELSE R(0))
        ELSE LET perturbed_grid_func == Perturbed(grid_func, j, step_size)
             IN  RDiv(RSub(DeFunc(de_func, perturbed_grid_func)
                               .function_values[i + 1],
                           DeFunc(de_func, grid_func).function_values[i + 1]),
                      step_size)

\* The entry pushed for row i, column j (both 0-based).
JacobianEntry(de_func, grid_func, step_size, i, j) ==
    LET matrix_size == Len(grid_func.function_values)
    IN  IF i = 0
        THEN (IF j = 0 THEN R(1) ELSE R(0))
        ELSE IF i = matrix_size - 1
        THEN (IF j = matrix_size - 1 THEN R(1) ELSE R(0))
        ELSE LET perturbed_grid_func == Perturbed(grid_func, j, step_size)
             IN  RDiv(RSub(DeFunc(de_func, perturbed_grid_func)
                               .function_values[i + 1],
                           DeFunc(de_func, grid_func).function_values[i + 1]),
                      step_size)

\* Interior rows exist from three values on, and each of their entries
\* evaluates de_func.
get_jacobian_matrix_panics(de_func, grid_func) ==
    /\ Len(grid_func.function_values) >= 3
    /\ de_func_panics(de_func, grid_func)

get_jacobian_matrix(de_func, grid_func, step_size) ==
    Val({Collect([k \in 1..(matrix_size * matrix_size) |->
                     JacobianEntry(de_func, f, step_size,
                                   (k - 1) \div matrix_size,
                                   (k - 1) % matrix_size)],
                 1, matrix_size * matrix_size) :
            f \in {grid_func},
            matrix_size \in {Len(grid_func.function_values)}})

\* de_func may panic, and residual_vector[0] is out of bounds when de_func
\* returns no values.
get_residual_vector_panics(de_func, grid_func) ==
    IF de_func_panics(de_func, grid_func)
    THEN TRUE
    ELSE \E residual_vector \in {DeFunc(de_func, grid_func).function_values} :
             \/ Len(residual_vector) = 0
             \/ Len(grid_func.function_values) < Len(residual_vector)

\* get_residual_vector that leaves the boundary elements of F as they are.
get_residual_vector_unmodified(de_func, grid_func, boundary_conditions) ==
    DeFunc(de_func, grid_func).function_values

\* get_residual_vector whose boundary elements are -left_bc and -right_bc.
get_residual_vector_bc_only(de_func, grid_func, boundary_conditions) ==
    Val({LET length == Len(residual_vector)
             first_set == [residual_vector EXCEPT
                              ![1] = RNeg(boundary_conditions.left_bc)]
         IN  [first_set EXCEPT
                 ![length] = RNeg(boundary_conditions.right_bc)] :
            residual_vector \in {DeFunc(de_func, grid_func).function_values}})

\* get_residual_vector with the right boundary row written first.
get_residual_vector_left_last(de_func, grid_func, boundary_conditions) ==
    Val({LET length == Len(residual_vector)
             last_set == [residual_vector EXCEPT
                             ![length] = RSub(f.function_values[length],
                                              boundary_conditions.right_bc)]
         IN  [last_set EXCEPT
                 ![1] = RSub(f.function_values[1],
                             boundary_conditions.left_bc)] :
            f \in {grid_func},
            residual_vector \in {DeFunc(de_func, grid_func).function_values}})

get_residual_vector(de_func, grid_func, boundary_conditions) ==
    Val({LET length == Len(residual_vector)
             first_set == [residual_vector EXCEPT
                              ![1] = RSub(f.function_values[1],
                                          boundary_conditions.left_bc)]
         IN  [first_set EXCEPT
                 ![length] = RSub(f.function_values[length],
                                  boundary_conditions.right_bc)] :
            f \in {grid_func},
            residual_vector \in {DeFunc(de_func, grid_func).function_values}})

(* --- the linear solve: nalgebra's LU with partial pivoting ------------- *)
RAbs(a) == Val({<<Abs(x[1]), x[2]>> : x \in {a}})

\* Row r, column c (1-based) of the row-major flat matrix.
At(matrix, matrix_size, r, c) == matrix[(r - 1) * matrix_size + c]

\* The rows [J | b] of the augmented system.
Augmented(matrix, vector, matrix_size) ==
    Val({Collect([r \in 1..n |->
                     Collect([c \in 1..n |-> At(a, n, r, c)], 1, n)
                         \o <<b[r]>>],
                 1, n) :
            a \in {matrix}, b \in {vector}, n \in {matrix_size}})

\* The first row from k on whose entry in column k is largest in magnitude.
PivotRow(m, k, n) ==
    CHOOSE p \in k..n :
        \A q \in k..n :
            /\ RGeq(RAbs(m[p][k]), RAbs(m[q][k]))
            /\ (RAbs(m[q][k]) = RAbs(m[p][k]) => p <= q)

\* One Gauss step on column k: swap the pivot row p into place and clear the
\* column below it.
GaussStep(m, k, n) ==
    Val({Val({Collect([r \in 1..n |->
                          IF r <= k
                          THEN swapped[r]
                          ELSE Val({Collect([c \in 1..(n + 1) |->
                                                RSub(swapped[r][c],
                                                     RMul(factor,
                                                          swapped[k][c]))],
                                            1, n + 1) :
                                       factor \in {RDiv(swapped[r][k],
                                                        swapped[k][k])}})],
                      1, n) :
                 swapped \in {[a EXCEPT ![k] = a[p], ![p] = a[k]]}}) :
            a \in {m}, p \in {PivotRow(m, k, n)}})

\* Forward elimination that carries on past a zero pivot.
RECURSIVE Eliminate_past_zero_pivot(_, _, _)
Eliminate_past_zero_pivot(m, k, n) ==
    Val({IF c > n
         THEN [ok |-> TRUE, m |-> a]
         ELSE IF a[PivotRow(a, c, n)][c][1] = 0
         THEN Eliminate_past_zero_pivot(a, c + 1, n)
         ELSE Eliminate_past_zero_pivot(GaussStep(a, c, n), c + 1, n) :
            a \in {m}, c \in {k}})

\* Forward elimination from column k on; ok is FALSE when a pivot is zero.
RECURSIVE Eliminate(_, _, _)
Eliminate(m, k, n) ==
    Val({IF c > n
         THEN [ok |-> TRUE, m |-> a]
         ELSE IF a[PivotRow(a, c, n)][c][1] = 0
         THEN [ok |-> FALSE, m |-> a]
         ELSE Eliminate(GaussStep(a, c, n), c + 1, n) :
            a \in {m}, c \in {k}})

\* The sum of u[k][j] * x[j] over the columns j after k; tail holds
\* x[k + 1], ..., x[n].
RECURSIVE RowDot(_, _, _, _)
RowDot(row, tail, k, j) ==
    Val({IF c > Len(tail)
         THEN R(0)
         ELSE RAdd(RMul(row[k + c], tail[c]), RowDot(row, tail, k, c + 1)) :
            c \in {j}})

\* Back substitution: the solution components k, ..., n.
RECURSIVE BackSubstitute(_, _, _)
BackSubstitute(u, k, n) ==
    Val({IF r > n
         THEN << >>
         ELSE Val({<<RDiv(RSub(a[r][n + 1], RowDot(a[r], tail, r, 1)),
                          a[r][r])>> \o tail :
                      tail \in {BackSubstitute(a, r + 1, n)}}) :
            a \in {u}, r \in {k}})

\* lu.solve(..) is None for a singular matrix, and unwrap() then panics.
solve_linear_system_panics(matrix, vector, matrix_size) ==
    \E a \in {matrix}, b \in {vector} :
        IF Len(a) # matrix_size * matrix_size \/ Len(b) # matrix_size
        THEN TRUE
        ELSE ~Eliminate(Augmented(a, b, matrix_size), 1, matrix_size).ok

solve_linear_system(matrix, vector, matrix_size) ==
    BackSubstitute(
        Eliminate(Augmented(matrix, vector, matrix_size), 1, matrix_size).m,
        1, matrix_size)

(* --- one Newton step --------------------------------------------------- *)
newtons_method_step_panics(de_func, grid_func_guess, boundary_conditions, step_size) ==
    IF \/ get_jacobian_matrix_panics(de_func, grid_func_guess)
       \/ get_residual_vector_panics(de_func, grid_func_guess)
    THEN TRUE
    ELSE solve_linear_system_panics(
             get_jacobian_matrix(de_func, grid_func_guess, step_size),
             get_residual_vector(de_func, grid_func_guess,
                                 boundary_conditions),
             Len(grid_func_guess.function_values))

\* newtons_method_step returning the updated values as the grid, too.
newtons_method_step_values_as_grid(de_func, grid_func_guess, boundary_conditions, step_size) ==
    Val({LET matrix_size == Len(grid_func_guess.function_values)
             n == Min(matrix_size, Len(grid_func_update))
             updated_guess_values ==
                 Collect([i \in 1..n |->
                             RAdd(grid_func_guess.function_values[i],
                                  grid_func_update[i])],
                         1, n)
         IN  GridFunction(Grid(updated_guess_values), updated_guess_values) :
            grid_func_update \in
                {solve_linear_system(
                     get_jacobian_matrix(de_func, grid_func_guess, step_size),
                     get_residual_vector(de_func, grid_func_guess,
                                         boundary_conditions),
                     Len(grid_func_guess.function_values))}})

\* The residual is handed to the solver as it is, so that grid_func_update
\* solves jacobian_matrix * grid_func_update = residual_vector.
newtons_method_step(de_func, grid_func_guess, boundary_conditions, step_size) ==
    Val({LET matrix_size == Len(grid_func_guess.function_values)
             n == Min(matrix_size, Len(grid_func_update))
         IN  GridFunction(grid_func_guess.grid,
                 Collect([i \in 1..n |->
                             RAdd(grid_func_guess.function_values[i],
                                  grid_func_update[i])],
                         1, n)) :
            grid_func_update \in
                {solve_linear_system(
                     get_jacobian_matrix(de_func, grid_func_guess, step_size),
                     get_residual_vector(de_func, grid_func_guess,
                                         boundary_conditions),
                     Len(grid_func_guess.function_values))}})

(* ---------------------------------------------------------------------- *)
(* Ownership: the caller's objects and the callee's references             *)
(* ---------------------------------------------------------------------- *)
\* The objects a caller holds are a sequence; the position of an object is
\* its address, and a reference (&GridFunction, &BoundaryConditions) is an
\* address.  A caller holds two GridFunctions and one BoundaryConditions.
TrialRefs == {1, 2}

ConditionsRef == 3

\* Clone that hands out the address of the original: the copy is an alias.
Clone_aliasing(held, address) == [objects |-> held, ref |-> address]

\* object.clone(): Grid and GridFunction derive Clone and Vec<f64> clones its
\* elements, so the copy is a new object with equal contents.
Clone(held, address) ==
    [objects |-> Append(held, held[address]), ref |-> Len(held) + 1]

\* A GridFunction the callee builds and returns is a new object.
Allocate(held, object) ==
    [objects |-> Append(held, object), ref |-> Len(held) + 1]

\* A local of the callee goes out of scope: the object made last is freed.
Drop(held, address) ==
    IF address = Len(held) THEN SubSeq(held, 1, Len(held) - 1) ELSE held

\* EntryEvaluations with the unperturbed evaluation in column 0 only.
EntryEvaluations_baseline_per_row(i, j) ==
    <<[row |-> i, col |-> j, of |-> "perturbed_grid_func"]>>
        \o (IF j = 0
            THEN <<[row |-> i, col |-> j, of |-> "grid_func"]>>
            ELSE << >>)

\* The evaluations of de_func for the interior entry (i, j): of the
\* perturbed copy, then of the trial itself.
EntryEvaluations(i, j) ==
    <<[row |-> i, col |-> j, of |-> "perturbed_grid_func"],
      [row |-> i, col |-> j, of |-> "grid_func"]>>

\* The locals of get_jacobian_matrix after entry is pushed for (i, j).
EntryPushed(locals, entry, matrix_size) ==
    [locals EXCEPT !.jacobian_matrix = Append(@, entry),
                   !.i = IF locals.j + 1 = matrix_size THEN @ + 1 ELSE @,
                   !.j = IF @ + 1 = matrix_size THEN 0 ELSE @ + 1,
                   !.perturbed_grid_func = 0]

(* ---------------------------------------------------------------------- *)
(* Inputs                                                                  *)
(* ---------------------------------------------------------------------- *)
Coordinates == {R(-1), R(0), Frac(1, 2), R(1), R(2)}

\* The intervals the sampled grid functions live on.
Intervals == {<<R(0), R(1)>>, <<R(0), R(2)>>}

GridFuncs ==
    {new_grid_function(new_uniform_grid(iv[1], iv[2], n), func) :
        iv \in Intervals, n \in 0..MaxPoints, func \in ScalarFuncs}

\* The grid points are a public field: besides the uniform grids there are
\* grids of uneven spacing.
NonUniformGrids ==
    {Grid(<<R(0), R(1), R(3)>>), Grid(<<R(0), R(1), R(3), R(4), R(6)>>)}

\* Uniform grids of 3, 5, .. points on [0, 1].
FineGrids == {new_uniform_grid(R(0), R(1), 2 * n - 1) : n \in 2..MaxPoints}

SampleGrids ==
    {new_uniform_grid(iv[1], iv[2], n) : iv \in Intervals, n \in 0..MaxPoints}
        \cup NonUniformGrids \cup FineGrids

SampledFuncs == ScalarFuncs \cup {"square"}

\* Trials on grids of unit spacing with more than MaxPoints points: on them
\* an interior row has columns three and more away from the diagonal.
WideGrids ==
    {new_uniform_grid(R(0), R(n - 1), n) : n \in (MaxPoints + 1)..(MaxPoints + 2)}

WideGridFuncs ==
    {new_grid_function(grid, func) : grid \in WideGrids, func \in ScalarFuncs}

\* Grid functions with fewer, and with more, values than grid points.
MismatchedOperands ==
    {GridFunction(Grid(<<R(0), R(1), R(2)>>), <<R(1), R(2)>>),
     GridFunction(Grid(<<R(0), R(1)>>), <<R(1), R(2), R(4)>>),
     GridFunction(Grid(<<R(0), R(1), R(2)>>), <<R(1)>>),
     GridFunction(Grid(<<R(0)>>), <<R(1), R(2)>>)}

\* The operands of the differentiation and integration operators.
SampledOperands ==
    {new_grid_function(grid, func) : grid \in SampleGrids,
                                     func \in SampledFuncs}
        \cup MismatchedOperands

DerivativeOps ==
    {"forward_difference_derivative", "central_difference_derivative"}

PosInf == <<1, 0>>

NegInf == <<-1, 0>>

NaN == <<0, 0>>

\* The values of the operands of the elementwise arithmetic: zero, a finite
\* value and the non-finite values that divide produces.
ArithValues == {R(0), R(-2), PosInf, NaN}

ValueSeqs == UNION {[1..k -> ArithValues] : k \in 0..MaxValues}

\* The fields of GridFunction are public: the operands carry any of the value
\* sequences, on grids over [0, 1] and [0, 2].
ArithOperands ==
    {GridFunction(new_uniform_grid(R(0), b, Len(v)), v) :
        b \in {R(1), R(2)}, v \in ValueSeqs}

Scalars == {R(0), R(2), R(-2)}

\* The trial functions newtons_method starts from.  Their grids have unit
\* spacing, and one has spacing 1/2: with these the fractions of the iteration
\* stay within TLC's 32-bit integers.
NewtonGrids ==
    {new_uniform_grid(R(0), R(IF n > 1 THEN n - 1 ELSE 1), n) :
        n \in 0..MaxPoints}
        \cup {new_uniform_grid(R(0), R(1), 3)}

\* A trial that solves the discrete y'' + y = 0 on three points of [0, 1]
\* with the boundary values 0 and 1: 2 f0 - 3 f1 + 2 f2 = 0.
DiscreteSolutions ==
    {GridFunction(new_uniform_grid(R(0), R(1), 3), <<R(0), Frac(2, 3), R(1)>>)}

NewtonGuesses ==
    {new_grid_function(grid, func) : grid \in NewtonGrids,
                                     func \in ScalarFuncs}
        \cup DiscreteSolutions

BoundaryValues == {R(0), R(1)}

\* The step size newtons_method passes to newtons_method_step (1e-6).
NewtonStepSize == Frac(1, 1000000)

CoarseStepSizes == {Frac(1, 2), R(1)}

\* The (de_func, step_size) pairs get_jacobian_matrix is called with.
JacobianInputs ==
    (DeFuncs \X CoarseStepSizes) \cup (LinearDeFuncs \X {NewtonStepSize})

\* The quadratics a * x^2 + b * x + c the interpolation is called on
\* samples of, as <<a, b, c>>.
QuadraticCoefficients == {R(-1), R(0), Frac(1, 2)}

Quadratics ==
    QuadraticCoefficients \X QuadraticCoefficients \X QuadraticCoefficients

\* a * x^2 + b * x + c.
EvaluateQuadratic(coefficients, x) ==
    Val({RAdd(RAdd(RMul(k[1], RMul(y, y)), RMul(k[2], y)), k[3]) :
            k \in {coefficients}, y \in {x}})

\* The triples of sample points, pairwise distinct or not.
PointTriples == Coordinates \X Coordinates \X Coordinates

\* The second GridFunction a caller holds, and its BoundaryConditions.
RightOperands ==
    {new_constant_grid_function(new_uniform_grid(R(0), R(2), n), R(2)) :
        n \in {0, 3}}

OwnedConditions ==
    {BoundaryConditions(R(0), r) : r \in BoundaryValues}

(* ---------------------------------------------------------------------- *)
(* State                                                                   *)
(* ---------------------------------------------------------------------- *)
VARIABLES
    \* a call of a public library function
    fn,       \* the library function called last ("none" before any call)
    args,     \* its arguments
    ret,      \* the value it returned
    outcome,  \* "none", "returned" or "panicked"
    \* a run of newtons_method
    pc,                       \* "Idle", "Running", "Done" or "Panicked"
    de_func,                  \* argument: the operator F
    boundary_conditions,      \* argument
    grid_func_initial_guess,  \* argument
    num_iterations,           \* argument
    grid_func_guess,          \* the loop's current trial
    iteration,                \* number of completed loop iterations
    previous_guess,           \* the trial passed to the last step
    jacobian_matrix,          \* locals of the last newtons_method_step
    residual_vector,
    panic_site,               \* where the run panicked ("none" if it did not)
    result,                   \* << >>, or <<g>> once g has been returned
    \* a caller's objects and one call on them
    objects,         \* the objects, by address
    objects_before,  \* the objects as they were before the call
    callee,          \* the function called and its arguments (references)
    callee_pc,       \* "Idle", "Assembling", "Iterating", "Returned", "Panicked"
    callee_locals,   \* the locals of the running callee
    de_func_calls,   \* the evaluations of de_func by get_jacobian_matrix
    returned         \* what the call returned: a reference or a value

libVars == <<fn, args, ret, outcome>>

ownerVars ==
    <<objects, objects_before, callee, callee_pc, callee_locals,
      de_func_calls, returned>>

NoOwner ==
    /\ objects = << >>
    /\ objects_before = << >>
    /\ callee = [fn |-> "none"]
    /\ callee_pc = "Idle"
    /\ callee_locals = << >>
    /\ de_func_calls = << >>
    /\ returned = << >>

inputVars ==
    <<de_func, boundary_conditions, grid_func_initial_guess, num_iterations>>

newtonVars ==
    <<pc, inputVars, grid_func_guess, iteration, previous_guess,
      jacobian_matrix, residual_vector, panic_site, result>>

vars == <<libVars, newtonVars, ownerVars>>

NoCall ==
    /\ fn = "none"
    /\ args = << >>
    /\ ret = << >>
    /\ outcome = "none"

NoRun ==
    /\ pc = "Idle"
    /\ de_func = "none"
    /\ boundary_conditions = BoundaryConditions(R(0), R(0))
    /\ grid_func_initial_guess = GridFunction(Grid(<< >>), << >>)
    /\ num_iterations = 0
    /\ grid_func_guess = GridFunction(Grid(<< >>), << >>)
    /\ iteration = 0
    /\ previous_guess = GridFunction(Grid(<< >>), << >>)
    /\ jacobian_matrix = << >>
    /\ residual_vector = << >>
    /\ panic_site = "none"
    /\ result = << >>

(* --- calls of the public library functions ----------------------------- *)
LibInit == NoCall /\ NoRun /\ NoOwner

\* Each behaviour is one call: the functions are pure, so a call does not
\* depend on the calls before it.
CallNewUniformGrid ==
    /\ fn = "none"
    /\ \E s \in Coordinates, e \in Coordinates, n \in 0..MaxPoints :
        /\ fn' = "new_uniform_grid"
        /\ args' = [start_point |-> s, end_point |-> e, num_points |-> n]
        /\ ret' = new_uniform_grid(s, e, n)
        /\ outcome' = "returned"
        /\ UNCHANGED <<newtonVars, ownerVars>>

CallGetJacobianMatrix ==
    /\ fn = "none"
    /\ \E in \in JacobianInputs, g \in GridFuncs \cup WideGridFuncs :
        /\ ~get_jacobian_matrix_panics(in[1], g)
        /\ fn' = "get_jacobian_matrix"
        /\ args' = [de_func |-> in[1], grid_func |-> g, step_size |-> in[2]]
        /\ ret' = get_jacobian_matrix(in[1], g, in[2])
        /\ outcome' = "returned"
        /\ UNCHANGED <<newtonVars, ownerVars>>

CallArithmetic ==
    /\ fn = "none"
    /\ \E op \in ArithmeticOps, f \in ArithOperands, g \in ArithOperands :
        /\ fn' = op
        /\ args' = [self |-> f, grid_func |-> g]
        /\ ret' = Arithmetic(op, f, g)
        /\ outcome' = "returned"
        /\ UNCHANGED <<newtonVars, ownerVars>>

CallScale ==
    /\ fn = "none"
    /\ \E f \in ArithOperands, c \in Scalars :
        /\ fn' = "scale"
        /\ args' = [self |-> f, scalar |-> c]
        /\ ret' = scale(f, c)
        /\ outcome' = "returned"
        /\ UNCHANGED <<newtonVars, ownerVars>>

CallDerivative ==
    /\ fn = "none"
    /\ \E op \in DerivativeOps, f \in SampledOperands :
        /\ fn' = op
        /\ args' = [self |-> f]
        /\ outcome' = DerivativeOutcome(op, f).outcome
        /\ ret' = DerivativeOutcome(op, f).ret
        /\ UNCHANGED <<newtonVars, ownerVars>>

\* A call of an integration operator: it returns an f64, or panics.
CallIntegrate ==
    /\ fn = "none"
    /\ \E op \in IntegrationOps, f \in SampledOperands, build \in Builds :
        /\ fn' = op
        /\ args' = [self |-> f, build |-> build]
        /\ IF IntegrationPanic(op, f, build) # "none"
           THEN /\ outcome' = "panicked"
                /\ ret' = [panic |-> IntegrationPanic(op, f, build)]
           ELSE /\ outcome' = "returned"
                /\ ret' = Integration(op, f)
        /\ UNCHANGED <<newtonVars, ownerVars>>

CallQuadraticInterpolationCoefficients ==
    /\ fn = "none"
    /\ \E points \in PointTriples, p \in Quadratics :
        \E function_values \in {<<EvaluateQuadratic(p, points[1]),
                                  EvaluateQuadratic(p, points[2]),
                                  EvaluateQuadratic(p, points[3])>>} :
            /\ fn' = "quadratic_interpolation_coefficients"
            /\ args' = [points |-> points,
                        function_values |-> function_values]
            /\ ret' = quadratic_interpolation_coefficients(points,
                                                           function_values)
            /\ outcome' = "returned"
            /\ UNCHANGED <<newtonVars, ownerVars>>

CallQuadraticIntegral ==
    /\ fn = "none"
    /\ \E p \in Quadratics, lower \in Coordinates, upper \in Coordinates :
        /\ fn' = "quadratic_integral"
        /\ args' = [coefficients |-> p, lower_limit |-> lower,
                    upper_limit |-> upper]
        /\ ret' = quadratic_integral(p, lower, upper)
        /\ outcome' = "returned"
        /\ UNCHANGED <<newtonVars, ownerVars>>

LibNext ==
    \/ CallNewUniformGrid
    \/ CallGetJacobianMatrix
    \/ CallArithmetic
    \/ CallScale
    \/ CallDerivative
    \/ CallIntegrate
    \/ CallQuadraticInterpolationCoefficients
    \/ CallQuadraticIntegral

LibSpec == LibInit /\ [][LibNext]_vars

(* --- newtons_method ---------------------------------------------------- *)
\* The state on entry to the loop: the trial is a clone of the initial guess.
Init ==
    /\ NoCall
    /\ NoOwner
    /\ pc = "Running"
    /\ de_func \in LinearDeFuncs
    /\ boundary_conditions \in
           {BoundaryConditions(l, r) : l \in BoundaryValues,
                                       r \in BoundaryValues}
    /\ grid_func_initial_guess \in NewtonGuesses
    /\ num_iterations \in 0..MaxIterations
    /\ grid_func_guess = grid_func_initial_guess
    /\ iteration = 0
    /\ previous_guess = grid_func_initial_guess
    /\ jacobian_matrix = << >>
    /\ residual_vector = << >>
    /\ panic_site = "none"
    /\ result = << >>

\* One pass of the loop body whose newtons_method_step returns.
NewtonIterate ==
    /\ pc = "Running"
    /\ iteration < num_iterations
    /\ ~newtons_method_step_panics(de_func, grid_func_guess,
                                   boundary_conditions, NewtonStepSize)
    /\ grid_func_guess' =
           newtons_method_step(de_func, grid_func_guess, boundary_conditions,
                               NewtonStepSize)
    /\ iteration' = iteration + 1
    /\ previous_guess' = grid_func_guess
    /\ jacobian_matrix' =
           get_jacobian_matrix(de_func, grid_func_guess, NewtonStepSize)
    /\ residual_vector' =
           get_residual_vector(de_func, grid_func_guess, boundary_conditions)
    /\ UNCHANGED <<pc, inputVars, panic_site, result, libVars, ownerVars>>

\* One pass of the loop body that panics while the residual is assembled:
\* inside de_func, or else on the index of an empty residual vector.
NewtonIterateResidualPanics ==
    /\ pc = "Running"
    /\ iteration < num_iterations
    /\ ~get_jacobian_matrix_panics(de_func, grid_func_guess)
    /\ get_residual_vector_panics(de_func, grid_func_guess)
    /\ pc' = "Panicked"
    /\ panic_site' = IF de_func_panics(de_func, grid_func_guess)
                     THEN "de_func"
                     ELSE "get_residual_vector"
    /\ previous_guess' = grid_func_guess
    /\ jacobian_matrix' =
           get_jacobian_matrix(de_func, grid_func_guess, NewtonStepSize)
    /\ residual_vector' = << >>
    /\ UNCHANGED <<inputVars, grid_func_guess, iteration, result, libVars, ownerVars>>

\* One pass of the loop body that panics on unwrap() in solve_linear_system.
NewtonIterateSolvePanics ==
    /\ pc = "Running"
    /\ iteration < num_iterations
    /\ ~get_jacobian_matrix_panics(de_func, grid_func_guess)
    /\ ~get_residual_vector_panics(de_func, grid_func_guess)
    /\ solve_linear_system_panics(
           get_jacobian_matrix(de_func, grid_func_guess, NewtonStepSize),
           get_residual_vector(de_func, grid_func_guess, boundary_conditions),
           Len(grid_func_guess.function_values))
    /\ pc' = "Panicked"
    /\ panic_site' = "solve_linear_system"
    /\ previous_guess' = grid_func_guess
    /\ jacobian_matrix' =
           get_jacobian_matrix(de_func, grid_func_guess, NewtonStepSize)
    /\ residual_vector' =
           get_residual_vector(de_func, grid_func_guess, boundary_conditions)
    /\ UNCHANGED <<inputVars, grid_func_guess, iteration, result, libVars, ownerVars>>

\* The loop is exhausted: the current trial is returned.
NewtonReturn ==
    /\ pc = "Running"
    /\ iteration = num_iterations
    /\ pc' = "Done"
    /\ result' = <<grid_func_guess>>
    /\ UNCHANGED <<inputVars, grid_func_guess, iteration, previous_guess,
                   jacobian_matrix, residual_vector, panic_site, libVars, ownerVars>>

Next ==
    \/ NewtonIterate
    \/ NewtonIterateResidualPanics
    \/ NewtonIterateSolvePanics
    \/ NewtonReturn

Spec == Init /\ [][Next]_vars

(* --- one call on the objects of a caller -------------------------------- *)
OwnerInit ==
    /\ NoCall
    /\ NoRun
    /\ \E f \in NewtonGuesses, g \in RightOperands, bc \in OwnedConditions :
           objects = <<f, g, bc>>
    /\ objects_before = objects
    /\ callee = [fn |-> "none"]
    /\ callee_pc = "Idle"
    /\ callee_locals = << >>
    /\ de_func_calls = << >>
    /\ returned = << >>

\* The call ended: it returned the GridFunction made, as a new object.
ReturnsObject(made) ==
    /\ objects' = made.objects
    /\ returned' = [ref |-> made.ref]
    /\ callee_pc' = "Returned"

\* The call ended: it returned a value that is no GridFunction.
ReturnsValue(v) ==
    /\ objects' = objects
    /\ returned' = [value |-> v]
    /\ callee_pc' = "Returned"

Panics(kind) ==
    /\ objects' = objects
    /\ returned' = [panic |-> kind]
    /\ callee_pc' = "Panicked"

OwnedArithmetic ==
    /\ callee_pc = "Idle"
    /\ \E op \in ArithmeticOps, self \in TrialRefs, grid_func \in TrialRefs :
        /\ callee' = [fn |-> op, self |-> self, grid_func |-> grid_func]
        /\ ReturnsObject(Allocate(objects,
               Arithmetic(op, objects[self], objects[grid_func])))
        /\ UNCHANGED <<objects_before, callee_locals, de_func_calls,
                       libVars, newtonVars>>

OwnedScale ==
    /\ callee_pc = "Idle"
    /\ \E self \in TrialRefs, scalar \in Scalars :
        /\ callee' = [fn |-> "scale", self |-> self, scalar |-> scalar]
        /\ ReturnsObject(Allocate(objects, scale(objects[self], scalar)))
        /\ UNCHANGED <<objects_before, callee_locals, de_func_calls,
                       libVars, newtonVars>>

OwnedDerivative ==
    /\ callee_pc = "Idle"
    /\ \E op \in DerivativeOps, self \in TrialRefs :
        /\ callee' = [fn |-> op, self |-> self]
        /\ IF DerivativeOutcome(op, objects[self]).outcome = "returned"
           THEN ReturnsObject(Allocate(objects,
                    DerivativeOutcome(op, objects[self]).ret))
           ELSE Panics(DerivativeOutcome(op, objects[self]).ret.panic)
        /\ UNCHANGED <<objects_before, callee_locals, de_func_calls,
                       libVars, newtonVars>>

OwnedIntegrate ==
    /\ callee_pc = "Idle"
    /\ \E op \in IntegrationOps, self \in TrialRefs, build \in Builds :
        /\ callee' = [fn |-> op, self |-> self, build |-> build]
        /\ IF IntegrationPanic(op, objects[self], build) = "none"
           THEN ReturnsValue(Integration(op, objects[self]))
           ELSE Panics(IntegrationPanic(op, objects[self], build))
        /\ UNCHANGED <<objects_before, callee_locals, de_func_calls,
                       libVars, newtonVars>>

OwnedResidualVector ==
    /\ callee_pc = "Idle"
    /\ \E d \in LinearDeFuncs, grid_func \in TrialRefs :
        /\ callee' = [fn |-> "get_residual_vector", de_func |-> d,
                      grid_func |-> grid_func,
                      boundary_conditions |-> ConditionsRef]
        /\ IF get_residual_vector_panics(d, objects[grid_func])
           THEN Panics("get_residual_vector")
           ELSE ReturnsValue(get_residual_vector(d, objects[grid_func],
                                                 objects[ConditionsRef]))
        /\ UNCHANGED <<objects_before, callee_locals, de_func_calls,
                       libVars, newtonVars>>

OwnedNewtonStep ==
    /\ callee_pc = "Idle"
    /\ \E d \in LinearDeFuncs, grid_func_guess_ref \in TrialRefs :
        /\ callee' = [fn |-> "newtons_method_step", de_func |-> d,
                      grid_func_guess |-> grid_func_guess_ref,
                      boundary_conditions |-> ConditionsRef,
                      step_size |-> NewtonStepSize]
        /\ IF newtons_method_step_panics(d, objects[grid_func_guess_ref],
                  objects[ConditionsRef], NewtonStepSize)
           THEN Panics("newtons_method_step")
           ELSE ReturnsObject(Allocate(objects,
                    newtons_method_step(d, objects[grid_func_guess_ref],
                        objects[ConditionsRef], NewtonStepSize)))
        /\ UNCHANGED <<objects_before, callee_locals, de_func_calls,
                       libVars, newtonVars>>

\* get_jacobian_matrix, entry by entry.
OwnedJacobianStart ==
    /\ callee_pc = "Idle"
    /\ \E d \in LinearDeFuncs, grid_func \in TrialRefs :
        /\ ~get_jacobian_matrix_panics(d, objects[grid_func])
        /\ callee' = [fn |-> "get_jacobian_matrix", de_func |-> d,
                      grid_func |-> grid_func, step_size |-> NewtonStepSize]
        /\ callee_pc' = "Assembling"
        /\ callee_locals' = [i |-> 0, j |-> 0, jacobian_matrix |-> << >>,
                             perturbed_grid_func |-> 0]
        /\ UNCHANGED <<objects, objects_before, de_func_calls, returned,
                       libVars, newtonVars>>

\* The number of rows and columns of the matrix being assembled.
MatrixSize == Len(objects[callee.grid_func].function_values)

\* An entry of row 0 or of the last row: no evaluation of de_func.
OwnedJacobianBoundaryEntry ==
    /\ callee_pc = "Assembling"
    /\ callee_locals.i < MatrixSize
    /\ callee_locals.i = 0 \/ callee_locals.i = MatrixSize - 1
    /\ callee_locals' =
           EntryPushed(callee_locals,
               JacobianEntry(callee.de_func, objects[callee.grid_func],
                             callee.step_size, callee_locals.i,
                             callee_locals.j),
               MatrixSize)
    /\ UNCHANGED <<objects, objects_before, callee, callee_pc, de_func_calls,
                   returned, libVars, newtonVars>>

\* An entry of an interior row, first half: the trial is cloned and the
\* clone's value j is raised by the step size.
OwnedJacobianPerturb ==
    /\ callee_pc = "Assembling"
    /\ callee_locals.i > 0
    /\ callee_locals.i < MatrixSize - 1
    /\ callee_locals.perturbed_grid_func = 0
    /\ \E copy \in {Clone(objects, callee.grid_func)} :
        /\ objects' = [copy.objects EXCEPT
                          ![copy.ref].function_values[callee_locals.j + 1] =
                              RAdd(@, callee.step_size)]
        /\ callee_locals' =
               [callee_locals EXCEPT !.perturbed_grid_func = copy.ref]
    /\ UNCHANGED <<objects_before, callee, callee_pc, de_func_calls, returned,
                   libVars, newtonVars>>

\* An entry of an interior row, second half: de_func is evaluated on the
\* clone and on the trial, the quotient is pushed and the clone is dropped.
OwnedJacobianInteriorEntry ==
    /\ callee_pc = "Assembling"
    /\ callee_locals.perturbed_grid_func # 0
    /\ callee_locals' =
           EntryPushed(callee_locals,
               RDiv(RSub(DeFunc(callee.de_func,
                                objects[callee_locals.perturbed_grid_func])
                             .function_values[callee_locals.i + 1],
                         DeFunc(callee.de_func, objects[callee.grid_func])
                             .function_values[callee_locals.i + 1]),
                    callee.step_size),
               MatrixSize)
    /\ de_func_calls' =
           de_func_calls \o EntryEvaluations(callee_locals.i, callee_locals.j)
    /\ objects' = Drop(objects, callee_locals.perturbed_grid_func)
    /\ UNCHANGED <<objects_before, callee, callee_pc, returned, libVars,
                   newtonVars>>

OwnedJacobianReturn ==
    /\ callee_pc = "Assembling"
    /\ callee_locals.i >= MatrixSize
    /\ ReturnsValue(callee_locals.jacobian_matrix)
    /\ UNCHANGED <<objects_before, callee, callee_locals, de_func_calls,
                   libVars, newtonVars>>

\* newtons_method, iteration by iteration: grid_func_guess is a clone of the
\* initial guess, and each iteration assigns to it.
OwnedNewtonStart ==
    /\ callee_pc = "Idle"
    /\ \E d \in LinearDeFuncs, guess \in TrialRefs, k \in 0..MaxIterations :
        \E copy \in {Clone(objects, guess)} :
            /\ callee' = [fn |-> "newtons_method", de_func |-> d,
                          boundary_conditions |-> ConditionsRef,
                          grid_func_initial_guess |-> guess,
                          num_iterations |-> k]
            /\ objects' = copy.objects
            /\ callee_locals' = [grid_func_guess |-> copy.ref, iteration |-> 0]
            /\ callee_pc' = "Iterating"
            /\ UNCHANGED <<objects_before, de_func_calls, returned, libVars,
                           newtonVars>>

\* newtons_method_step would panic on the current trial.
CurrentStepPanics ==
    newtons_method_step_panics(callee.de_func,
        objects[callee_locals.grid_func_guess],
        objects[callee.boundary_conditions], NewtonStepSize)

OwnedNewtonIterate ==
    /\ callee_pc = "Iterating"
    /\ callee_locals.iteration < callee.num_iterations
    /\ ~CurrentStepPanics
    /\ objects' =
           [objects EXCEPT ![callee_locals.grid_func_guess] =
               newtons_method_step(callee.de_func, @,
                   objects[callee.boundary_conditions], NewtonStepSize)]
    /\ callee_locals' = [callee_locals EXCEPT !.iteration = @ + 1]
    /\ UNCHANGED <<objects_before, callee, callee_pc, de_func_calls, returned,
                   libVars, newtonVars>>

OwnedNewtonPanics ==
    /\ callee_pc = "Iterating"
    /\ callee_locals.iteration < callee.num_iterations
    /\ CurrentStepPanics
    /\ Panics("newtons_method_step")
    /\ UNCHANGED <<objects_before, callee, callee_locals, de_func_calls,
                   libVars, newtonVars>>

\* The loop is exhausted: grid_func_guess is moved out to the caller.
OwnedNewtonReturn ==
    /\ callee_pc = "Iterating"
    /\ callee_locals.iteration = callee.num_iterations
    /\ objects' = objects
    /\ returned' = [ref |-> callee_locals.grid_func_guess]
    /\ callee_pc' = "Returned"
    /\ UNCHANGED <<objects_before, callee, callee_locals, de_func_calls,
                   libVars, newtonVars>>

OwnerNext ==
    \/ OwnedArithmetic
    \/ OwnedScale
    \/ OwnedDerivative
    \/ OwnedIntegrate
    \/ OwnedResidualVector
    \/ OwnedNewtonStep
    \/ OwnedJacobianStart
    \/ OwnedJacobianBoundaryEntry
    \/ OwnedJacobianPerturb
    \/ OwnedJacobianInteriorEntry
    \/ OwnedJacobianReturn
    \/ OwnedNewtonStart
    \/ OwnedNewtonIterate
    \/ OwnedNewtonPanics
    \/ OwnedNewtonReturn

OwnerSpec == OwnerInit /\ [][OwnerNext]_vars

(* ---------------------------------------------------------------------- *)
(* Properties of Grid                                                      *)
(* ---------------------------------------------------------------------- *)
CalledGrid == fn = "new_uniform_grid"

\* C9: new_uniform_grid(start, end, N) returns an empty grid, without any
\* error, whenever start >= end or N = 0; the degenerate interval wins over
\* the single-point case N = 1.
DegenerateGridIsEmpty ==
    (CalledGrid /\ (RGeq(args.start_point, args.end_point)
                       \/ args.num_points = 0))
        => (outcome = "returned" /\ ret.grid_points = << >>)

DegenerateSinglePointReached ==
    /\ CalledGrid
    /\ args.num_points = 1
    /\ RGeq(args.start_point, args.end_point)
    /\ ret.grid_points = << >>

\* The point with 0-based index i of the N-point uniform grid over [a, b],
\* as the convex combination (a * (N - 1 - i) + b * i) / (N - 1).
UniformPoint(a, b, N, i) ==
    RDiv(RAdd(RMul(a, R(N - 1 - i)), RMul(b, R(i))), R(N - 1))

\* C10: for start a < end b, new_uniform_grid(a, b, N) has exactly N points;
\* for N = 1 it is <<a>>; for N >= 2 point i is a + i * (b - a) / (N - 1), so
\* the first point is a, the last is b, every consecutive spacing is
\* (b - a) / (N - 1) and the coordinates increase strictly.
UniformGridShape ==
    (CalledGrid /\ RLess(args.start_point, args.end_point))
        => LET a == args.start_point
               b == args.end_point
               N == args.num_points
               x == ret.grid_points
           IN  /\ outcome = "returned"
               /\ Len(x) = N
               /\ N = 1 => x = <<a>>
               /\ N >= 2 =>
                     /\ x[1] = a
                     /\ x[N] = b
                     /\ \A i \in 1..N : x[i] = UniformPoint(a, b, N, i - 1)
                     /\ \A i \in 1..(N - 1) :
                           /\ RSub(x[i + 1], x[i]) = RDiv(RSub(b, a), R(N - 1))
                           /\ RLess(x[i], x[i + 1])

UniformGridReached ==
    /\ CalledGrid
    /\ RLess(args.start_point, args.end_point)
    /\ args.num_points >= 3
    /\ Len(ret.grid_points) = args.num_points
    /\ ret.grid_points[2] # args.start_point

SinglePointGridReached ==
    /\ CalledGrid
    /\ RLess(args.start_point, args.end_point)
    /\ args.num_points = 1
    /\ ret.grid_points = <<args.start_point>>

(* ---------------------------------------------------------------------- *)
(* Properties of the Newton iteration                                      *)
(* ---------------------------------------------------------------------- *)
\* The last newtons_method_step returned; previous_guess is the trial it was
\* given and grid_func_guess the trial it returned.
StepReturned == pc # "Panicked" /\ iteration >= 1

\* The last newtons_method_step got as far as the linear solve.
StepReachedSolve == StepReturned \/ panic_site = "solve_linear_system"

\* sum over the columns c, ..., n of matrix[r][c] * x[c]
RECURSIVE RowTimes(_, _, _, _, _)
RowTimes(matrix, n, r, x, c) ==
    IF c > n
    THEN R(0)
    ELSE RAdd(RMul(At(matrix, n, r, c), x[c]), RowTimes(matrix, n, r, x, c + 1))

\* The update the last step applied, guess - previous.
AppliedUpdate ==
    [i \in 1..Len(previous_guess.function_values) |->
        RSub(grid_func_guess.function_values[i],
             previous_guess.function_values[i])]

\* C1: the update Delta of newtons_method_step solves J * Delta = -F, and the
\* step returns the trial's grid with the values trial[i] + Delta[i].
ClassicalNewtonUpdate ==
    StepReturned =>
        LET n == Len(previous_guess.function_values)
        IN  /\ grid_func_guess.grid = previous_guess.grid
            /\ Len(grid_func_guess.function_values) = n
            /\ \A r \in 1..n :
                   RowTimes(jacobian_matrix, n, r, AppliedUpdate, 1)
                       = RNeg(residual_vector[r])

\* C2: the trial returned by one newtons_method_step on n >= 2 values
\* satisfies both Dirichlet conditions exactly, whatever the trial's boundary
\* values were.
StepEnforcesBoundaryConditions ==
    (StepReturned /\ Len(previous_guess.function_values) >= 2) =>
        LET v == grid_func_guess.function_values
        IN  /\ v[1] = boundary_conditions.left_bc
            /\ v[Len(v)] = boundary_conditions.right_bc

\* newtons_method_step applied k times in a row, starting from g.
RECURSIVE StepIterated(_, _)
StepIterated(g, k) ==
    IF k = 0
    THEN g
    ELSE newtons_method_step(de_func, StepIterated(g, k - 1),
                             boundary_conditions, NewtonStepSize)

\* C3: newtons_method stops only in Done, unless de_func panicked or a
\* Jacobian was singular: it has then applied newtons_method_step exactly
\* num_iterations times, each time to the result of the step before, and
\* returns the last trial, which is the initial guess when num_iterations = 0.
NewtonRunEndsInDone ==
    /\ pc \in {"Running", "Done", "Panicked"}
    /\ pc = "Panicked" => panic_site \in {"de_func", "solve_linear_system"}
    /\ pc = "Done" =>
           /\ iteration = num_iterations
           /\ result = <<StepIterated(grid_func_initial_guess, num_iterations)>>
           /\ (num_iterations = 0 => result = <<grid_func_initial_guess>>)

\* C4: after every iteration the trial's grid equals the grid of the previous
\* trial, hence the grid of the initial guess; only the values change.
TrialGridUnchanged ==
    /\ grid_func_guess.grid = previous_guess.grid
    /\ grid_func_guess.grid = grid_func_initial_guess.grid
    /\ pc = "Done" => result[1].grid = grid_func_initial_guess.grid

ValuesChangedGridKeptReached ==
    /\ StepReturned
    /\ iteration = 2
    /\ Len(grid_func_guess.grid.grid_points) >= 3
    /\ grid_func_guess.function_values # previous_guess.function_values
    /\ grid_func_guess.grid = grid_func_initial_guess.grid

(* ---------------------------------------------------------------------- *)
(* Properties of the residual vector and the Jacobian matrix               *)
(* ---------------------------------------------------------------------- *)
\* F at the trial of the last step.
TrialDeFuncValues == DeFunc(de_func, previous_guess).function_values

\* C5 as stated: the residual vector has the length n of F(trial).values,
\* element 0 is trial[0] - left_bc, element n - 1 is trial[n - 1] - right_bc
\* and every interior element is that of F(trial).
ResidualVectorShape ==
    StepReachedSolve =>
        LET n == Len(TrialDeFuncValues)
            trial == previous_guess.function_values
        IN  /\ Len(residual_vector) = n
            /\ residual_vector[1] = RSub(trial[1], boundary_conditions.left_bc)
            /\ residual_vector[n] = RSub(trial[n], boundary_conditions.right_bc)
            /\ \A i \in 2..(n - 1) : residual_vector[i] = TrialDeFuncValues[i]

\* C5, amended: so it is for n >= 2; for n = 1 the single element is
\* trial[0] - right_bc, the right boundary row being written last.
ResidualVectorShapeFromTwo ==
    StepReachedSolve =>
        LET n == Len(TrialDeFuncValues)
            trial == previous_guess.function_values
        IN  /\ Len(residual_vector) = n
            /\ residual_vector[n] = RSub(trial[n], boundary_conditions.right_bc)
            /\ n >= 2 =>
                   residual_vector[1] = RSub(trial[1], boundary_conditions.left_bc)
            /\ \A i \in 2..(n - 1) : residual_vector[i] = TrialDeFuncValues[i]

InteriorResidualReached ==
    /\ StepReturned
    /\ Len(residual_vector) >= 3
    /\ residual_vector[2] = TrialDeFuncValues[2]
    /\ residual_vector[1] # TrialDeFuncValues[1]
    /\ residual_vector[Len(residual_vector)]
           # TrialDeFuncValues[Len(residual_vector)]

SingleResidualReached ==
    /\ StepReturned
    /\ Len(residual_vector) = 1
    /\ boundary_conditions.left_bc # boundary_conditions.right_bc
    /\ residual_vector[1]
           = RSub(previous_guess.function_values[1], boundary_conditions.right_bc)

CalledJacobian == fn = "get_jacobian_matrix"

\* C6: get_jacobian_matrix returns n * n entries for n trial values, and for
\* n >= 2 row 0 is [1, 0, ..., 0] and row n - 1 is [0, ..., 0, 1], whatever F,
\* the trial values and the step size are.
JacobianBoundaryRows ==
    CalledJacobian =>
        LET n == Len(args.grid_func.function_values)
        IN  /\ outcome = "returned"
            /\ Len(ret) = n * n
            /\ n >= 2 =>
                   \A j \in 0..(n - 1) :
                       /\ ret[j + 1] = IF j = 0 THEN R(1) ELSE R(0)
                       /\ ret[(n - 1) * n + j + 1]
                              = IF j = n - 1 THEN R(1) ELSE R(0)

BoundaryRowsReached ==
    /\ CalledJacobian
    /\ Len(args.grid_func.function_values) >= 3
    /\ args.de_func = "square"
    /\ \E k \in 1..Len(ret) : ret[k] \notin {R(0), R(1)}

IdentityJacobianReached ==
    /\ CalledJacobian
    /\ args.de_func = "square"
    /\ args.grid_func.function_values = <<R(0), R(1)>>
    /\ ret = <<R(1), R(0), R(0), R(1)>>

\* The trial with component j (0-based) replaced by its value plus step.
OnlyComponentRaised(grid_func, j, step) ==
    GridFunction(grid_func.grid,
        [c \in 1..Len(grid_func.function_values) |->
            IF c = j + 1
            THEN RAdd(grid_func.function_values[c], step)
            ELSE grid_func.function_values[c]])

\* C7: for every interior row i and every column j the entry at row-major
\* position i * n + j is (F(p)[i] - F(trial)[i]) / step, where p is the trial
\* with component j alone raised by step.
JacobianInteriorEntries ==
    CalledJacobian =>
        LET n == Len(args.grid_func.function_values)
            F0 == DeFunc(args.de_func, args.grid_func).function_values
        IN  \A i \in 1..(n - 2), j \in 0..(n - 1) :
                ret[i * n + j + 1]
                    = RDiv(RSub(DeFunc(args.de_func,
                                       OnlyComponentRaised(args.grid_func, j,
                                                           args.step_size))
                                    .function_values[i + 1],
                                F0[i + 1]),
                           args.step_size)

InteriorEntriesReached ==
    /\ CalledJacobian
    /\ args.de_func = "square"
    /\ Len(args.grid_func.function_values) = MaxPoints
    /\ ret[MaxPoints + 2] \notin {R(0), R(1)}
    /\ ret[MaxPoints + 3] = R(0)
    /\ ret[2 * MaxPoints + 3] \notin {R(0), R(1)}

\* The matrix without its first row and its column c.
Minor(matrix, n, c) ==
    Collect([k \in 1..((n - 1) * (n - 1)) |->
                LET r == ((k - 1) \div (n - 1)) + 2
                    q == ((k - 1) % (n - 1)) + 1
                IN  At(matrix, n, r, IF q < c THEN q ELSE q + 1)],
            1, (n - 1) * (n - 1))

\* The determinant, expanded along the first row from column c on.
RECURSIVE Det(_, _, _)
Det(matrix, n, c) ==
    IF n = 0
    THEN R(1)
    ELSE IF c > n
    THEN R(0)
    ELSE RAdd(RMul(RMul(R(IF c % 2 = 1 THEN 1 ELSE -1), At(matrix, n, 1, c)),
                   Det(Minor(matrix, n, c), n - 1, 1)),
              Det(matrix, n, c + 1))

\* The Jacobian assembled by the last step is singular.
SingularJacobian ==
    /\ Len(jacobian_matrix) = Len(previous_guess.function_values)
                                  * Len(previous_guess.function_values)
    /\ Det(jacobian_matrix, Len(previous_guess.function_values), 1) = R(0)

\* C8: when the Jacobian assembled by a step is singular the linear solve
\* fails and newtons_method panics: it returns nothing, and the trial is not
\* updated.
SingularJacobianPanics ==
    (StepReachedSolve /\ SingularJacobian) =>
        /\ pc = "Panicked"
        /\ panic_site = "solve_linear_system"
        /\ result = << >>
        /\ grid_func_guess = previous_guess

ZeroRowPanicReached ==
    /\ pc = "Panicked"
    /\ panic_site = "solve_linear_system"
    /\ de_func = "constant"
    /\ Len(previous_guess.function_values) >= 3
    /\ \A j \in 1..Len(previous_guess.function_values) :
           At(jacobian_matrix, Len(previous_guess.function_values), 2, j) = R(0)
    /\ result = << >>

(* ---------------------------------------------------------------------- *)
(* Properties of the elementwise arithmetic                                *)
(* ---------------------------------------------------------------------- *)
CalledArithmetic == fn \in ArithmeticOps

\* left op right on two values.
ValueOp(op, x, y) ==
    CASE op = "add" -> RAdd(x, y)
      [] op = "subtract" -> RSub(x, y)
      [] op = "multiply" -> RMul(x, y)
      [] op = "divide" -> RDiv(x, y)

RightOperandShorter ==
    /\ CalledArithmetic
    /\ Len(args.grid_func.function_values) < Len(args.self.function_values)

\* The part of C11 that does not depend on the operation: the result is as
\* long as the left operand, combines the values index by index, and combines
\* left[i] with 0 from the end of the right operand on.
PaddedResult ==
    LET left == args.self.function_values
        right == args.grid_func.function_values
        values == ret.function_values
    IN  /\ outcome = "returned"
        /\ Len(values) = Len(left)
        /\ \A i \in 1..Len(right) : values[i] = ValueOp(fn, left[i], right[i])
        /\ \A i \in (Len(right) + 1)..Len(left) :
               /\ values[i] = ValueOp(fn, left[i], R(0))
               /\ fn \in {"add", "subtract"} => values[i] = left[i]
               /\ fn = "divide" => values[i] = RDiv(left[i], R(0))

\* C11 as stated: with a shorter right operand the result has the length of
\* the left one, values[i] = left[i] op right[i] below len(right) and
\* left[i] op 0 from there on: add and subtract keep left[i], multiply gives
\* 0, divide gives left[i] / 0.
ShorterRightIsZeroPadded ==
    RightOperandShorter =>
        /\ PaddedResult
        /\ fn = "multiply" =>
               \A i \in (Len(args.grid_func.function_values) + 1)
                            ..Len(args.self.function_values) :
                   ret.function_values[i] = R(0)

\* C11, amended: the same, but multiply gives 0 only where left[i] is finite;
\* where left[i] is infinite or NaN, left[i] * 0 is NaN.
ShorterRightIsZeroPaddedFinite ==
    RightOperandShorter =>
        /\ PaddedResult
        /\ fn = "multiply" =>
               \A i \in (Len(args.grid_func.function_values) + 1)
                            ..Len(args.self.function_values) :
                   ret.function_values[i] =
                       IF IsFinite(args.self.function_values[i])
                       THEN R(0)
                       ELSE NaN

PaddedProductReached ==
    /\ fn = "multiply"
    /\ args.self.function_values = <<R(-2), R(-2)>>
    /\ args.grid_func.function_values = <<R(-2)>>
    /\ ret.function_values = <<R(4), R(0)>>

PaddedInfiniteProductReached ==
    /\ fn = "multiply"
    /\ args.self.function_values = <<R(-2), PosInf>>
    /\ args.grid_func.function_values = <<R(-2)>>
    /\ ret.function_values = <<R(4), NaN>>

\* C12: with a right operand at least as long as the left one the result has
\* len(left) values, values[i] = left[i] op right[i]; the further values of
\* the right operand are ignored, nothing is raised, and two empty operands
\* give an empty result.
LongerRightIsTruncated ==
    (CalledArithmetic
        /\ Len(args.grid_func.function_values)
               >= Len(args.self.function_values)) =>
        LET left == args.self.function_values
            right == args.grid_func.function_values
            values == ret.function_values
        IN  /\ outcome = "returned"
            /\ Len(values) = Len(left)
            /\ \A i \in 1..Len(left) :
                   values[i] = ValueOp(fn, left[i], right[i])
            /\ (left = << >> /\ right = << >>) => values = << >>

TruncatedDifferenceReached ==
    /\ fn = "subtract"
    /\ args.self.function_values = <<R(0)>>
    /\ args.grid_func.function_values = <<R(-2), R(-2)>>
    /\ ret.function_values = <<R(2)>>

EmptyOperandsReached ==
    /\ fn = "divide"
    /\ args.self.function_values = << >>
    /\ args.grid_func.function_values = << >>
    /\ ret.function_values = << >>

\* C13: the result of add, subtract, multiply, divide and scale carries the
\* grid of the left operand, whatever the grid of the right operand is; so
\* f.add(g) and g.add(f) carry different grids whenever f.grid # g.grid.
ResultCarriesLeftGrid ==
    /\ (CalledArithmetic \/ fn = "scale") => ret.grid = args.self.grid
    /\ (fn = "add" /\ args.self.grid # args.grid_func.grid) =>
           ret.grid # add(args.grid_func, args.self).grid

SameValuesOtherGridReached ==
    /\ fn = "add"
    /\ Len(args.self.function_values) = 2
    /\ args.self.grid # args.grid_func.grid
    /\ Len(args.self.grid.grid_points) = Len(args.grid_func.grid.grid_points)
    /\ ret.function_values = add(args.grid_func, args.self).function_values
    /\ ret.grid = args.self.grid
    /\ ret.grid # add(args.grid_func, args.self).grid

ScaledGridReached ==
    /\ fn = "scale"
    /\ Len(args.self.function_values) = 2
    /\ ret.function_values # args.self.function_values
    /\ ret.grid = args.self.grid

SameLengthOperands ==
    /\ fn \in {"add", "multiply"}
    /\ Len(args.self.function_values) = Len(args.grid_func.function_values)

Divisor(i) ==
    IF i <= Len(args.grid_func.function_values)
    THEN args.grid_func.function_values[i]
    ELSE R(0)

\* The division at position i by a divisor other than 0: for finite values
\* the result times the divisor is the dividend.
OrdinaryQuotient(i) ==
    LET x == args.self.function_values[i]
        q == ret.function_values[i]
    IN  IF IsFinite(x) /\ IsFinite(Divisor(i))
        THEN IsFinite(q) /\ RMul(q, Divisor(i)) = x
        ELSE q = RDiv(x, Divisor(i))

\* C15 as stated: divide never aborts; where the divisor is zero, padded
\* positions included, the result is +infinity or -infinity for a nonzero
\* dividend and NaN for a zero dividend; elsewhere it is the quotient.
DivideByZeroIsNonFinite ==
    fn = "divide" =>
        /\ outcome = "returned"
        /\ Len(ret.function_values) >= Len(args.self.function_values)
        /\ \A i \in 1..Len(args.self.function_values) :
               IF Divisor(i) = R(0)
               THEN IF args.self.function_values[i] = R(0)
                    THEN ret.function_values[i] = NaN
                    ELSE ret.function_values[i] \in {PosInf, NegInf}
               ELSE OrdinaryQuotient(i)

\* C15, amended: a NaN dividend over a zero divisor gives NaN, too.
DivideByZeroIsNonFiniteOrNaN ==
    fn = "divide" =>
        /\ outcome = "returned"
        /\ Len(ret.function_values) >= Len(args.self.function_values)
        /\ \A i \in 1..Len(args.self.function_values) :
               IF Divisor(i) = R(0)
               THEN IF args.self.function_values[i] \in {R(0), NaN}
                    THEN ret.function_values[i] = NaN
                    ELSE ret.function_values[i] \in {PosInf, NegInf}
               ELSE OrdinaryQuotient(i)

DividedByPaddedZeroReached ==
    /\ fn = "divide"
    /\ args.self.function_values = <<R(0), R(-2)>>
    /\ args.grid_func.function_values = <<R(-2)>>
    /\ ret.function_values = <<R(0), NegInf>>

DividedZeroByZeroReached ==
    /\ fn = "divide"
    /\ args.self.function_values = <<R(0), NaN>>
    /\ args.grid_func.function_values = <<R(0), R(0)>>
    /\ ret.function_values = <<NaN, NaN>>

(* ---------------------------------------------------------------------- *)
(* Properties of the difference operators                                  *)
(* ---------------------------------------------------------------------- *)
\* The operand has n >= 2 grid points and n values.
DerivativeOperandFits ==
    /\ fn \in DerivativeOps
    /\ Len(args.self.grid.grid_points) >= 2
    /\ Len(args.self.function_values) = Len(args.self.grid.grid_points)

\* d is the slope of the operand between the positions i and j (1-based):
\* d * (x[j] - x[i]) = f[j] - f[i].
SlopeBetween(d, i, j) ==
    /\ IsFinite(d)
    /\ RMul(d, RSub(args.self.grid.grid_points[j],
                    args.self.grid.grid_points[i]))
           = RSub(args.self.function_values[j], args.self.function_values[i])

\* C16: on n >= 2 grid points with n values forward_difference_derivative
\* returns n values on an equal grid: value i is the slope from i to i + 1
\* for 0 <= i <= n - 2, and value n - 1 is the slope from n - 2 to n - 1, so
\* the last two values coincide.
ForwardDifferenceValues ==
    (DerivativeOperandFits /\ fn = "forward_difference_derivative") =>
        LET n == Len(args.self.grid.grid_points)
            d == ret.function_values
        IN  /\ outcome = "returned"
            /\ ret.grid = args.self.grid
            /\ Len(d) = n
            /\ \A i \in 1..(n - 1) : SlopeBetween(d[i], i, i + 1)
            /\ SlopeBetween(d[n], n - 1, n)
            /\ d[n] = d[n - 1]

ForwardDifferenceReached ==
    /\ fn = "forward_difference_derivative"
    /\ args.self.grid = Grid(<<R(0), R(1), R(3), R(4), R(6)>>)
    /\ args.self.function_values = <<R(0), R(1), R(9), R(16), R(36)>>
    /\ ret.function_values = <<R(1), R(4), R(7), R(10), R(10)>>

\* The operand samples x * x on a grid of constant spacing.
SquareOnUniformGrid ==
    LET x == args.self.grid.grid_points
    IN  /\ \A i \in 1..Len(x) : args.self.function_values[i] = RMul(x[i], x[i])
        /\ \A i \in 1..(Len(x) - 1) :
               RSub(x[i + 1], x[i]) = RSub(x[2], x[1])

\* C17: on n >= 2 grid points with n values central_difference_derivative
\* returns n values on an equal grid: value 0 is the slope from 0 to 1, value
\* i the slope from i - 1 to i + 1 for 1 <= i <= n - 2, and value n - 1 the
\* slope from n - 2 to n - 1; for x * x on a uniform grid that is 2 x at the
\* interior points and off by the spacing at the two boundary points.
CentralDifferenceValues ==
    (DerivativeOperandFits /\ fn = "central_difference_derivative") =>
        LET n == Len(args.self.grid.grid_points)
            x == args.self.grid.grid_points
            d == ret.function_values
        IN  /\ outcome = "returned"
            /\ ret.grid = args.self.grid
            /\ Len(d) = n
            /\ SlopeBetween(d[1], 1, 2)
            /\ \A i \in 2..(n - 1) : SlopeBetween(d[i], i - 1, i + 1)
            /\ SlopeBetween(d[n], n - 1, n)
            /\ SquareOnUniformGrid =>
                   /\ \A i \in 2..(n - 1) : d[i] = RMul(R(2), x[i])
                   /\ d[1] = RAdd(RMul(R(2), x[1]), RSub(x[2], x[1]))
                   /\ d[n] = RSub(RMul(R(2), x[n]), RSub(x[2], x[1]))

CentralDifferenceSquareReached ==
    /\ fn = "central_difference_derivative"
    /\ args.self.grid = new_uniform_grid(R(0), R(2), MaxPoints)
    /\ SquareOnUniformGrid
    /\ ret.function_values[2] = RMul(R(2), args.self.grid.grid_points[2])
    /\ ret.function_values[1] # RMul(R(2), args.self.grid.grid_points[1])

CentralDifferenceUnevenReached ==
    /\ fn = "central_difference_derivative"
    /\ args.self.grid = Grid(<<R(0), R(1), R(3)>>)
    /\ args.self.function_values = <<R(0), R(1), R(9)>>
    /\ ret.function_values = <<R(1), R(3), R(4)>>

\* C27: on a grid of 0 or 1 points forward_difference_derivative and
\* central_difference_derivative panic with an index out of bounds, whatever
\* the values are, and return no GridFunction.
DerivativeBelowTwoPointsPanics ==
    (fn \in DerivativeOps /\ Len(args.self.grid.grid_points) < 2) =>
        /\ outcome = "panicked"
        /\ ret = [panic |-> "index_out_of_bounds"]

DerivativePanicReached ==
    /\ fn \in DerivativeOps
    /\ Len(args.self.grid.grid_points) = 1
    /\ Len(args.self.function_values) = 1
    /\ outcome = "panicked"

DerivativeEmptyGridPanicReached ==
    /\ fn = "central_difference_derivative"
    /\ args.self = GridFunction(Grid(<< >>), << >>)
    /\ outcome = "panicked"

DerivativeLongValuesPanicReached ==
    /\ fn = "forward_difference_derivative"
    /\ Len(args.self.grid.grid_points) = 1
    /\ Len(args.self.function_values) = 2
    /\ outcome = "panicked"

(* ---------------------------------------------------------------------- *)
(* Properties of the integration operators                                 *)
(* ---------------------------------------------------------------------- *)
\* The operand of the called integration operator has as many values as
\* grid points.
IntegrationOperandFits ==
    /\ fn \in IntegrationOps
    /\ Len(args.self.function_values) = Len(args.self.grid.grid_points)

RECURSIVE RSum(_)
RSum(terms) ==
    IF terms = << >> THEN R(0) ELSE RAdd(Head(terms), RSum(Tail(terms)))

\* f[n] * (x[n+1] - x[n]) for the cells n of the operand, in order.
CellAreas ==
    LET x == args.self.grid.grid_points
        f == args.self.function_values
    IN  [n \in 1..(Len(x) - 1) |-> RMul(f[n], RSub(x[n + 1], x[n]))]

\* The operand with its last value raised by one.
LastValueRaised ==
    LET n == Len(args.self.function_values)
    IN  [args.self EXCEPT !.function_values[n] = RAdd(@, R(1))]

\* The returned Riemann sum is the sum of the cell areas, and the value at
\* the last point has no part in it.
RiemannSumOfCells ==
    /\ outcome = "returned"
    /\ ret = RSum(CellAreas)
    /\ Len(args.self.function_values) >= 1 =>
           integrate_riemann_sum(LastValueRaised) = ret

\* C18: on N grid points with N values, for every N >= 0,
\* integrate_riemann_sum returns the sum over n = 0 .. N - 2 of
\* f[n] * (x[n+1] - x[n]), in which the last value has no part; on one point
\* and on the empty grid it returns 0.
RiemannSumForEveryLength ==
    (IntegrationOperandFits /\ fn = "integrate_riemann_sum") =>
        /\ RiemannSumOfCells
        /\ Len(args.self.grid.grid_points) <= 1 => ret = R(0)

\* The same for N >= 1 only.
RiemannSumFromOnePoint ==
    (/\ IntegrationOperandFits
     /\ fn = "integrate_riemann_sum"
     /\ Len(args.self.grid.grid_points) >= 1) =>
        /\ RiemannSumOfCells
        /\ Len(args.self.grid.grid_points) = 1 => ret = R(0)

RiemannSumReached ==
    /\ fn = "integrate_riemann_sum"
    /\ args.self.grid = Grid(<<R(0), R(1), R(3)>>)
    /\ args.self.function_values = <<R(0), R(1), R(9)>>
    /\ outcome = "returned"
    /\ ret = R(2)

RiemannSumOnePointReached ==
    /\ fn = "integrate_riemann_sum"
    /\ Len(args.self.grid.grid_points) = 1
    /\ outcome = "returned"
    /\ ret = R(0)

\* On the empty grid integrate_riemann_sum panics, in either build.
RiemannSumEmptyGridPanics ==
    (fn = "integrate_riemann_sum" /\ args.self.grid.grid_points = << >>) =>
        /\ outcome = "panicked"
        /\ ret.panic = IF args.build = "debug" THEN "subtract_overflow"
                       ELSE "index_out_of_bounds"

RiemannSumEmptyGridPanicReached ==
    /\ fn = "integrate_riemann_sum"
    /\ args.self.grid.grid_points = << >>
    /\ outcome = "panicked"

\* C19: on a grid of an even number of points, the empty grid included,
\* integrate_composite_simpsons_rule panics at its test of the parity, which
\* stands before the loop of the contributions, in every build and whatever
\* the values; it never returns a number.
SimpsonEvenPointsPanics ==
    (/\ fn = "integrate_composite_simpsons_rule"
     /\ Len(args.self.grid.grid_points) % 2 = 0) =>
        /\ outcome = "panicked"
        /\ ret = [panic |-> "odd_points_required"]

SimpsonEvenPointsPanicReached ==
    /\ fn = "integrate_composite_simpsons_rule"
    /\ Len(args.self.grid.grid_points) = 2
    /\ Len(args.self.function_values) = 2
    /\ outcome = "panicked"
    /\ ret = [panic |-> "odd_points_required"]

SimpsonEmptyGridPanicReached ==
    /\ fn = "integrate_composite_simpsons_rule"
    /\ args.self.grid.grid_points = << >>
    /\ outcome = "panicked"
    /\ ret = [panic |-> "odd_points_required"]

\* The integral over [x[i], x[i+2]] of the quadratic through the samples at
\* the positions i, i + 1, i + 2 (1-based) of the operand, by Simpson's
\* formula for uneven spacing: with h0 = x[i+1] - x[i], h1 = x[i+2] - x[i+1],
\*   (h0 + h1) / 6 * ((2 - h1 / h0) * f[i]
\*                    + (h0 + h1)^2 / (h0 * h1) * f[i+1]
\*                    + (2 - h0 / h1) * f[i+2]).
TripleIntegral(i) ==
    LET x == args.self.grid.grid_points
        f == args.self.function_values
        h0 == RSub(x[i + 1], x[i])
        h1 == RSub(x[i + 2], x[i + 1])
        h == RAdd(h0, h1)
    IN  RMul(RDiv(h, R(6)),
             RAdd(RAdd(RMul(RSub(R(2), RDiv(h1, h0)), f[i]),
                       RMul(RDiv(RMul(h, h), RMul(h0, h1)), f[i + 1])),
                  RMul(RSub(R(2), RDiv(h0, h1)), f[i + 2])))

\* The integrals of the triples that start at the positions 0, 2, .., N - 3
\* (0-based), in order; the spans of consecutive triples share one end point
\* and run from x[0] to x[N-1].
TripleIntegrals ==
    [t \in 1..((Len(args.self.grid.grid_points) - 1) \div 2) |->
        TripleIntegral(2 * t - 1)]

SimpsonSumOfTriples ==
    /\ outcome = "returned"
    /\ ret = RSum(TripleIntegrals)

\* C20: on a grid of an odd number N = 1, 3, 5, .. of points with N values
\* integrate_composite_simpsons_rule returns, and what it returns is the sum
\* of the (N - 1) / 2 integrals of the quadratics fitted to the triples that
\* start at n = 0, 2, .., N - 3.
SimpsonOddPointsSum ==
    (/\ IntegrationOperandFits
     /\ fn = "integrate_composite_simpsons_rule"
     /\ Len(args.self.grid.grid_points) % 2 = 1) =>
        SimpsonSumOfTriples

\* The same for N >= 3 only.
SimpsonOddPointsSumFromThree ==
    (/\ IntegrationOperandFits
     /\ fn = "integrate_composite_simpsons_rule"
     /\ Len(args.self.grid.grid_points) % 2 = 1
     /\ Len(args.self.grid.grid_points) >= 3) =>
        SimpsonSumOfTriples

\* x * x from 0 to 1 on three points: 1 / 3.
SimpsonSquareReached ==
    /\ fn = "integrate_composite_simpsons_rule"
    /\ args.self = new_grid_function(new_uniform_grid(R(0), R(1), 3), "square")
    /\ outcome = "returned"
    /\ ret = Frac(1, 3)

SimpsonUnevenReached ==
    /\ fn = "integrate_composite_simpsons_rule"
    /\ args.self.grid = Grid(<<R(0), R(1), R(3), R(4), R(6)>>)
    /\ args.self.function_values = <<R(0), R(1), R(9), R(16), R(36)>>
    /\ outcome = "returned"
    /\ ret = R(72)

\* On one grid point integrate_composite_simpsons_rule panics, in either
\* build, though one is odd.
SimpsonOnePointPanics ==
    (/\ fn = "integrate_composite_simpsons_rule"
     /\ Len(args.self.grid.grid_points) = 1) =>
        /\ outcome = "panicked"
        /\ ret.panic = IF args.build = "debug" THEN "subtract_overflow"
                       ELSE "index_out_of_bounds"

SimpsonOnePointPanicReached ==
    /\ fn = "integrate_composite_simpsons_rule"
    /\ Len(args.self.grid.grid_points) = 1
    /\ Len(args.self.function_values) = 1
    /\ outcome = "panicked"

\* The operand samples x * x on new_uniform_grid(0, 1, N) for an odd N >= 3.
SquareOnOddUnitGrid ==
    LET x == args.self.grid.grid_points
    IN  /\ Len(x) >= 3
        /\ Len(x) % 2 = 1
        /\ args.self.grid = new_uniform_grid(R(0), R(1), Len(x))
        /\ args.self = new_grid_function(args.self.grid, "square")

\* C21: for x * x sampled on new_uniform_grid(0, 1, N) with an odd N >= 3
\* integrate_composite_simpsons_rule returns exactly 1 / 3, whatever N is.
SimpsonIntegratesSquareExactly ==
    (fn = "integrate_composite_simpsons_rule" /\ SquareOnOddUnitGrid) =>
        /\ outcome = "returned"
        /\ ret = Frac(1, 3)

SimpsonSquareFiveReached ==
    /\ fn = "integrate_composite_simpsons_rule"
    /\ SquareOnOddUnitGrid
    /\ Len(args.self.grid.grid_points) = 5
    /\ ret = Frac(1, 3)

SimpsonSquareSevenReached ==
    /\ fn = "integrate_composite_simpsons_rule"
    /\ SquareOnOddUnitGrid
    /\ Len(args.self.grid.grid_points) = 7
    /\ ret = Frac(1, 3)

(* ---------------------------------------------------------------------- *)
(* Properties of the quadratic interpolation                               *)
(* ---------------------------------------------------------------------- *)
\* The three sample points of the call are pairwise distinct.
DistinctPoints ==
    /\ args.points[1] # args.points[2]
    /\ args.points[1] # args.points[3]
    /\ args.points[2] # args.points[3]

\* The function values of the call are the samples of the quadratic p.
SamplesOf(p) ==
    \A i \in 1..3 : args.function_values[i] = EvaluateQuadratic(p, args.points[i])

\* C22: on pairwise distinct x0, x1, x2 and the samples of a quadratic
\* a x^2 + b x + c there, quadratic_interpolation_coefficients returns
\* exactly (a, b, c); equivalently, the returned polynomial passes through
\* the three given points.
InterpolationRoundTrip ==
    (fn = "quadratic_interpolation_coefficients" /\ DistinctPoints) =>
        /\ outcome = "returned"
        /\ \A p \in Quadratics : SamplesOf(p) => ret = p
        /\ SamplesOf(ret)

InterpolationRoundTripReached ==
    /\ fn = "quadratic_interpolation_coefficients"
    /\ args.points = <<R(-1), Frac(1, 2), R(2)>>
    /\ args.function_values = <<Frac(1, 2), Frac(-11, 8), R(-1)>>
    /\ ret = <<Frac(1, 2), R(-1), R(-1)>>

\* On points that are not pairwise distinct the call divides by zero, and
\* what it returns is not finite.
RepeatedPointReached ==
    /\ fn = "quadratic_interpolation_coefficients"
    /\ args.points[1] = args.points[2]
    /\ outcome = "returned"
    /\ ~IsFinite(ret[1])

\* (a / 3) (u^3 - l^3) + (b / 2) (u^2 - l^2) + c (u - l).
ClosedFormIntegral(p, l, u) ==
    RAdd(RAdd(RMul(RDiv(p[1], R(3)),
                   RSub(RMul(RMul(u, u), u), RMul(RMul(l, l), l))),
              RMul(RDiv(p[2], R(2)), RSub(RMul(u, u), RMul(l, l)))),
         RMul(p[3], RSub(u, l)))

\* C23: quadratic_integral((a, b, c), lower, upper) is
\* (a / 3) (upper^3 - lower^3) + (b / 2) (upper^2 - lower^2)
\* + c (upper - lower); it is 0 when the limits are equal, it changes sign
\* when they are swapped, and the integrals over [lower, mid] and
\* [mid, upper] add up to the one over [lower, upper].
QuadraticIntegralClosedForm ==
    fn = "quadratic_integral" =>
        LET p == args.coefficients
            l == args.lower_limit
            u == args.upper_limit
        IN  /\ outcome = "returned"
            /\ ret = ClosedFormIntegral(p, l, u)
            /\ l = u => ret = R(0)
            /\ quadratic_integral(p, u, l) = RNeg(ret)
            /\ \A mid \in Coordinates :
                   RAdd(quadratic_integral(p, l, mid),
                        quadratic_integral(p, mid, u)) = ret

QuadraticIntegralReached ==
    /\ fn = "quadratic_integral"
    /\ args.coefficients = <<Frac(1, 2), R(-1), R(-1)>>
    /\ args.lower_limit = R(-1)
    /\ args.upper_limit = R(2)
    /\ ret = R(-3)

QuadraticIntegralSwappedReached ==
    /\ fn = "quadratic_integral"
    /\ args.coefficients = <<Frac(1, 2), R(-1), R(-1)>>
    /\ args.lower_limit = R(2)
    /\ args.upper_limit = R(-1)
    /\ ret = R(3)

(* ---------------------------------------------------------------------- *)
(* Properties of the demonstration operator                                *)
(* ---------------------------------------------------------------------- *)
\* get_jacobian_matrix was called on differential_equation_function and a
\* trial on a grid of constant spacing.
CalledHarmonicJacobian ==
    /\ CalledJacobian
    /\ args.de_func = "harmonic"
    /\ \E x \in {args.grid_func.grid.grid_points} :
           \A k \in 1..(Len(x) - 1) : RSub(x[k + 1], x[k]) = RSub(x[2], x[1])

\* Component i of F(f) is the same after the trial value j alone is raised
\* by the step size, and the Jacobian entry (i, j) is 0 (i, j 0-based).
Independent(i, j) ==
    /\ DeFunc(args.de_func, Perturbed(args.grid_func, j, args.step_size))
           .function_values[i + 1]
         = DeFunc(args.de_func, args.grid_func).function_values[i + 1]
    /\ ret[i * Len(args.grid_func.function_values) + j + 1] = R(0)

\* Component i of F(f) and the trial value j are at least width apart in
\* every interior row: then the one does not depend on the other.
BandWithin(width) ==
    LET n == Len(args.grid_func.function_values)
    IN  \A i \in 1..(n - 2), j \in 0..(n - 1) :
            Abs(i - j) >= width => Independent(i, j)

\* C26: for F(f) = central_difference_derivative(
\* central_difference_derivative(f)) + f on a uniform grid, component i of
\* F(f) does not change when one trial value f[j] with |i - j| >= 2 changes,
\* so the interior rows of the Jacobian are zero outside the tridiagonal
\* band.
HarmonicJacobianTridiagonal == CalledHarmonicJacobian => BandWithin(2)

\* The same with |i - j| >= 3: the interior rows are zero outside the band of
\* five diagonals.
HarmonicJacobianFiveDiagonals == CalledHarmonicJacobian => BandWithin(3)

\* Six points: row 2 has a nonzero entry two columns off the diagonal, and
\* zeros three columns off.
FiveDiagonalsReached ==
    /\ CalledHarmonicJacobian
    /\ Len(args.grid_func.function_values) = MaxPoints + 2
    /\ ~Independent(2, 0)
    /\ ~Independent(2, 4)
    /\ Independent(2, 5)
    /\ Independent(1, 4)

\* Component i does not depend on the neighbour i + 1 in the middle of the
\* grid: the second difference of central differences skips it.
NeighbourSkippedReached ==
    /\ CalledHarmonicJacobian
    /\ Len(args.grid_func.function_values) = MaxPoints + 2
    /\ Independent(2, 3)
    /\ ~Independent(2, 2)

(* ---------------------------------------------------------------------- *)
(* Properties of the trials of the Newton iteration                        *)
(* ---------------------------------------------------------------------- *)
\* The grid function g has values, and its first and last are the Dirichlet
\* values.
SatisfiesBoundaryConditions(g) ==
    /\ Len(g.function_values) >= 1
    /\ g.function_values[1] = boundary_conditions.left_bc
    /\ g.function_values[Len(g.function_values)] = boundary_conditions.right_bc

\* C29: when the initial guess satisfies both Dirichlet conditions, the
\* current trial satisfies them after every iteration, for every number of
\* iterations, and so does the returned trial: the boundary components of
\* every applied update are zero.
BoundaryValuesPreserved ==
    SatisfiesBoundaryConditions(grid_func_initial_guess) =>
        /\ SatisfiesBoundaryConditions(grid_func_guess)
        /\ Len(grid_func_guess.function_values)
               = Len(grid_func_initial_guess.function_values)
        /\ StepReturned =>
               /\ AppliedUpdate[1] = R(0)
               /\ AppliedUpdate[Len(AppliedUpdate)] = R(0)
        /\ pc = "Done" => SatisfiesBoundaryConditions(result[1])

BoundaryValuesPreservedReached ==
    /\ SatisfiesBoundaryConditions(grid_func_initial_guess)
    /\ boundary_conditions = BoundaryConditions(R(0), R(1))
    /\ pc = "Done"
    /\ iteration = 2
    /\ Len(grid_func_guess.function_values) >= 3
    /\ grid_func_guess.function_values # previous_guess.function_values
    /\ previous_guess.function_values # grid_func_initial_guess.function_values

\* The initial guess satisfies both boundary conditions, and F of it is zero
\* at every interior index.
InitialGuessSolves ==
    /\ SatisfiesBoundaryConditions(grid_func_initial_guess)
    /\ ~de_func_panics(de_func, grid_func_initial_guess)
    /\ \E F0 \in {DeFunc(de_func, grid_func_initial_guess).function_values} :
           \A i \in 2..(Len(F0) - 1) : F0[i] = R(0)

\* C30: when the trial satisfies both boundary conditions and F of it is
\* zero at every interior index, the residual vector is all zeros and, the
\* Jacobian being nonsingular, newtons_method_step returns a GridFunction
\* equal to the trial; so newtons_method returns the initial guess, whatever
\* num_iterations is.
SolutionIsFixedPoint ==
    InitialGuessSolves =>
        /\ grid_func_guess = grid_func_initial_guess
        /\ panic_site \in {"none", "solve_linear_system"}
        /\ StepReachedSolve =>
               \A i \in 1..Len(residual_vector) : residual_vector[i] = R(0)
        /\ pc = "Done" => result = <<grid_func_initial_guess>>

SolutionIsFixedPointReached ==
    /\ InitialGuessSolves
    /\ grid_func_initial_guess \in DiscreteSolutions
    /\ de_func = "harmonic"
    /\ pc = "Done"
    /\ iteration = 2
    /\ result = <<grid_func_initial_guess>>

\* Two points have no interior index: every trial that satisfies the boundary
\* conditions is a fixed point, whatever F is.
TwoPointFixedPointReached ==
    /\ InitialGuessSolves
    /\ de_func = "constant"
    /\ grid_func_initial_guess.function_values = <<R(0), R(1)>>
    /\ pc = "Done"
    /\ iteration = 1

\* With a singular Jacobian the run stops in the solve instead.
SolutionSingularJacobianReached ==
    /\ InitialGuessSolves
    /\ pc = "Panicked"
    /\ panic_site = "solve_linear_system"

(* ---------------------------------------------------------------------- *)
(* Properties of the ownership of the operands                             *)
(* ---------------------------------------------------------------------- *)
\* Every object the caller held before the call is there and as it was.
ObjectsAsBefore ==
    /\ Len(objects) >= Len(objects_before)
    /\ \A a \in 1..Len(objects_before) : objects[a] = objects_before[a]

\* C24: every transform (add, subtract, multiply, divide, scale, the two
\* derivatives, the two integrals, get_jacobian_matrix, get_residual_vector,
\* newtons_method_step, newtons_method) leaves every GridFunction, Grid and
\* BoundaryConditions passed in as it was before the call, while it runs and
\* after it returned or panicked; a GridFunction it returns is a new object.
InputsNeverMutated ==
    /\ ObjectsAsBefore
    /\ (callee_pc = "Returned" /\ "ref" \in DOMAIN returned) =>
           /\ returned.ref > Len(objects_before)
           /\ returned.ref <= Len(objects)

\* get_jacobian_matrix holds a perturbed clone of an unchanged trial.
PerturbedCloneReached ==
    /\ callee_pc = "Assembling"
    /\ callee_locals.perturbed_grid_func > Len(objects_before)
    /\ objects[callee_locals.perturbed_grid_func]
           # objects[callee.grid_func]
    /\ objects[callee_locals.perturbed_grid_func].grid
           = objects[callee.grid_func].grid
    /\ objects[callee.grid_func] = objects_before[callee.grid_func]

\* newtons_method returned a trial other than the initial guess, which is as
\* it was.
NewtonResultIsNewObjectReached ==
    /\ callee_pc = "Returned"
    /\ callee.fn = "newtons_method"
    /\ callee.num_iterations = 2
    /\ objects[returned.ref] # objects[callee.grid_func_initial_guess]
    /\ objects[callee.grid_func_initial_guess]
           = objects_before[callee.grid_func_initial_guess]

ArithmeticResultIsNewObjectReached ==
    /\ callee_pc = "Returned"
    /\ callee.fn = "divide"
    /\ callee.self # callee.grid_func
    /\ Len(objects[returned.ref].function_values) >= 3
    /\ ObjectsAsBefore

\* The call of get_jacobian_matrix returned, on a trial of n values.
JacobianAssembled(n) ==
    /\ callee_pc = "Returned"
    /\ callee.fn = "get_jacobian_matrix"
    /\ Len(objects_before[callee.grid_func].function_values) = n

\* The number of evaluations of de_func logged for row i and column j.
EvaluationsAt(i, j) ==
    Cardinality({k \in 1..Len(de_func_calls) :
                    de_func_calls[k].row = i /\ de_func_calls[k].col = j})

\* No evaluation of de_func belongs to row 0 or to the last of n rows.
NoBoundaryRowEvaluations(n) ==
    \A k \in 1..Len(de_func_calls) :
        de_func_calls[k].row \in 1..(n - 2)

\* The matrix returned is what get_jacobian_matrix computes in one piece.
AssembledMatrixIsJacobian ==
    (callee_pc = "Returned" /\ callee.fn = "get_jacobian_matrix") =>
        returned.value = get_jacobian_matrix(callee.de_func,
                             objects_before[callee.grid_func],
                             callee.step_size)

\* C25: assembling the Jacobian of an n-point trial evaluates F once per
\* interior entry (i, j) and once more, unperturbed, per interior row:
\* n (n - 2) + (n - 2) evaluations in all, none of them for the two
\* boundary rows.
EvaluationsPerEntryAndRow ==
    \A n \in 0..(MaxPoints + 1) :
        (JacobianAssembled(n) /\ n >= 2) =>
            /\ Len(de_func_calls) = n * (n - 2) + (n - 2)
            /\ NoBoundaryRowEvaluations(n)

\* The same with two evaluations per interior entry, one of the perturbed
\* clone and one of the trial: 2 n (n - 2) evaluations in all.
EvaluationsTwicePerEntry ==
    \A n \in 0..(MaxPoints + 1) :
        JacobianAssembled(n) =>
            /\ Len(de_func_calls) = IF n >= 2 THEN 2 * n * (n - 2) ELSE 0
            /\ NoBoundaryRowEvaluations(n)
            /\ \A i \in 1..(n - 2), j \in 0..(n - 1) :
                   /\ EvaluationsAt(i, j) = 2
                   /\ \E k \in 1..(Len(de_func_calls) - 1) :
                          /\ de_func_calls[k]
                                 = [row |-> i, col |-> j,
                                    of |-> "perturbed_grid_func"]
                          /\ de_func_calls[k + 1]
                                 = [row |-> i, col |-> j, of |-> "grid_func"]

TwiceEvaluatedReached ==
    /\ JacobianAssembled(MaxPoints)
    /\ callee.de_func = "harmonic"
    /\ Len(de_func_calls) = 2 * MaxPoints * (MaxPoints - 2)
    /\ Len(returned.value) = MaxPoints * MaxPoints

NoInteriorRowReached ==
    /\ JacobianAssembled(2)
    /\ de_func_calls = << >>
    /\ returned.value = <<R(1), R(0), R(0), R(1)>>

(* ---------------------------------------------------------------------- *)
(* A session: GridFunctions built by the constructors and by the          *)
(* transforms of the GridFunctions built before                           *)
(* ---------------------------------------------------------------------- *)
\* The most GridFunctions a session holds.
MaxObjects == 3

SessionGrids == {new_uniform_grid(R(0), R(2), n) : n \in {0, 2, 3}}

SessionFuncs == {"line", "parabola"}

SessionScalar == R(2)

SessionConditions == BoundaryConditions(R(0), R(1))

\* The references to the GridFunctions held.
Held == 1..Len(objects)

\* The call returned the GridFunction made; the caller holds it from now on.
Holds(made) ==
    /\ objects' = made.objects
    /\ returned' = [ref |-> made.ref]
    /\ callee_pc' = "Idle"

SessionInit == NoCall /\ NoRun /\ NoOwner

SessionNewGridFunction ==
    /\ callee_pc = "Idle"
    /\ Len(objects) < MaxObjects
    /\ \E grid \in SessionGrids, func \in SessionFuncs :
        /\ callee' = [fn |-> "new_grid_function", grid |-> grid,
                      func |-> func]
        /\ Holds(Allocate(objects, new_grid_function(grid, func)))
        /\ UNCHANGED <<objects_before, callee_locals, de_func_calls,
                       libVars, newtonVars>>

SessionNewConstantGridFunction ==
    /\ callee_pc = "Idle"
    /\ Len(objects) < MaxObjects
    /\ \E grid \in SessionGrids :
        /\ callee' = [fn |-> "new_constant_grid_function", grid |-> grid,
                      scalar |-> SessionScalar]
        /\ Holds(Allocate(objects,
               new_constant_grid_function(grid, SessionScalar)))
        /\ UNCHANGED <<objects_before, callee_locals, de_func_calls,
                       libVars, newtonVars>>

SessionArithmetic ==
    /\ callee_pc = "Idle"
    /\ Len(objects) < MaxObjects
    /\ \E op \in ArithmeticOps, self \in Held, grid_func \in Held :
        /\ callee' = [fn |-> op, self |-> self, grid_func |-> grid_func]
        /\ Holds(Allocate(objects,
               Arithmetic(op, objects[self], objects[grid_func])))
        /\ UNCHANGED <<objects_before, callee_locals, de_func_calls,
                       libVars, newtonVars>>

SessionScale ==
    /\ callee_pc = "Idle"
    /\ Len(objects) < MaxObjects
    /\ \E self \in Held :
        /\ callee' = [fn |-> "scale", self |-> self,
                      scalar |-> SessionScalar]
        /\ Holds(Allocate(objects, scale(objects[self], SessionScalar)))
        /\ UNCHANGED <<objects_before, callee_locals, de_func_calls,
                       libVars, newtonVars>>

\* A panic ends the session.
SessionDerivative ==
    /\ callee_pc = "Idle"
    /\ Len(objects) < MaxObjects
    /\ \E op \in DerivativeOps, self \in Held :
        /\ callee' = [fn |-> op, self |-> self]
        /\ IF DerivativeOutcome(op, objects[self]).outcome = "returned"
           THEN Holds(Allocate(objects,
                    DerivativeOutcome(op, objects[self]).ret))
           ELSE Panics(DerivativeOutcome(op, objects[self]).ret.panic)
        /\ UNCHANGED <<objects_before, callee_locals, de_func_calls,
                       libVars, newtonVars>>

\* newtons_method_step on a trial of finite values.
SessionNewtonStep ==
    /\ callee_pc = "Idle"
    /\ Len(objects) < MaxObjects
    /\ \E d \in LinearDeFuncs, grid_func_guess_ref \in Held :
        /\ \A i \in 1..Len(objects[grid_func_guess_ref].function_values) :
               IsFinite(objects[grid_func_guess_ref].function_values[i])
        /\ callee' = [fn |-> "newtons_method_step", de_func |-> d,
                      grid_func_guess |-> grid_func_guess_ref]
        /\ IF newtons_method_step_panics(d, objects[grid_func_guess_ref],
                  SessionConditions, NewtonStepSize)
           THEN Panics("newtons_method_step")
           ELSE Holds(Allocate(objects,
                    newtons_method_step(d, objects[grid_func_guess_ref],
                        SessionConditions, NewtonStepSize)))
        /\ UNCHANGED <<objects_before, callee_locals, de_func_calls,
                       libVars, newtonVars>>

SessionNext ==
    \/ SessionNewGridFunction
    \/ SessionNewConstantGridFunction
    \/ SessionArithmetic
    \/ SessionScale
    \/ SessionDerivative
    \/ SessionNewtonStep

SessionSpec == SessionInit /\ [][SessionNext]_vars

(* ---------------------------------------------------------------------- *)
(* Properties of a session                                                 *)
(* ---------------------------------------------------------------------- *)
LengthsAgree(g) == Len(g.function_values) = Len(g.grid.grid_points)

\* The GridFunction the last call returned.
LastMade == objects[returned.ref]

\* What the constructor last called has built: one value per grid point,
\* func(grid[i]) or the constant.
ConstructedAsSampled ==
    /\ callee.fn = "new_grid_function" =>
           /\ LastMade.grid = callee.grid
           /\ \A i \in 1..Len(callee.grid.grid_points) :
                  LastMade.function_values[i]
                      = ScalarFunc(callee.func, callee.grid.grid_points[i])
    /\ callee.fn = "new_constant_grid_function" =>
           /\ LastMade.grid = callee.grid
           /\ \A i \in 1..Len(callee.grid.grid_points) :
                  LastMade.function_values[i] = callee.scalar
    /\ (/\ callee.fn \in {"new_grid_function", "new_constant_grid_function"}
        /\ callee.grid.grid_points = << >>) =>
           LastMade.function_values = << >>

\* What a transform returned stands on the grid of its (left) operand.
TransformedOnOperandGrid ==
    /\ (callee.fn \in ArithmeticOps \cup DerivativeOps \cup {"scale"}
        /\ callee_pc = "Idle") =>
           LastMade.grid = objects[callee.self].grid
    /\ (callee.fn = "newtons_method_step" /\ callee_pc = "Idle") =>
           LastMade.grid = objects[callee.grid_func_guess].grid

\* C28: whatever the sequence of constructions and transforms, every
\* GridFunction held has as many values as grid points.  The constructors
\* build one value per grid point (func(grid[i]), or the constant; none on
\* the empty grid); add, subtract, multiply and divide, whatever the length
\* of the right operand, scale, both derivatives where they return, and
\* newtons_method_step with a de_func that preserves the length return a
\* GridFunction of the length of their operand on the operand's grid.
LengthInvariant ==
    /\ \A a \in Held : LengthsAgree(objects[a])
    /\ ConstructedAsSampled
    /\ TransformedOnOperandGrid

\* divide of three values by no values has returned three values.
ShorterRightOperandReached ==
    /\ callee.fn = "divide"
    /\ Len(objects[callee.self].function_values) = 3
    /\ objects[callee.grid_func].function_values = << >>
    /\ Len(LastMade.function_values) = 3
    /\ LastMade.function_values[1] = NaN

\* add of two values and three values has returned two values.
LongerRightOperandReached ==
    /\ callee.fn = "add"
    /\ Len(objects[callee.self].function_values) = 2
    /\ Len(objects[callee.grid_func].function_values) = 3
    /\ Len(LastMade.function_values) = 2

\* A derivative of what newtons_method_step returned.
DerivativeOfNewtonStepReached ==
    /\ Len(objects) = MaxObjects
    /\ callee.fn \in DerivativeOps
    /\ callee.self = 2
    /\ callee_pc = "Idle"
    /\ \E d \in LinearDeFuncs :
           /\ ~newtons_method_step_panics(d, objects[1], SessionConditions,
                                          NewtonStepSize)
           /\ objects[2] = newtons_method_step(d, objects[1],
                               SessionConditions, NewtonStepSize)
    /\ Len(LastMade.function_values) = 3

\* A derivative on the empty grid has ended the session.
SessionPanicReached ==
    /\ callee.fn \in DerivativeOps
    /\ callee_pc = "Panicked"
    /\ objects[callee.self].grid.grid_points = << >>

====
